---------------------------- MODULE Spec2Model ----------------------------
(***************************************************************************)
(* Patio planner: the exact-cover tiling solver of solver.worker.ts.       *)
(*                                                                         *)
(* Conventions.  A cell is a pair <<x, y>>; the source's "x,y" string keys *)
(* of Sets and Maps are in bijection with the cells and are modelled by    *)
(* the cells themselves, except where the source compares or parses the    *)
(* strings (orientations, canonicalKey): there a string is the sequence of *)
(* its character codes.  JavaScript arrays are sequences, so the source's  *)
(* index i is i + 1 here (pids, rows and columns count from 1).  A tile    *)
(* type whose count is null has no count field.                            *)
(***************************************************************************)
EXTENDS Integers, Sequences, FiniteSets, TLC

(***************************************************************************)
(* Bounds of the model.                                                    *)
(***************************************************************************)
MaxW == 3
MaxH == 2
MaxCells == 6
MaxHoles == 1
MaxCount == 2
MaxCap == 2

(***************************************************************************)
(* Generic sequence helpers.                                               *)
(***************************************************************************)
Range(s) == {s[i] : i \in DOMAIN s}

Last(s) == s[Len(s)]

Front(s) == SubSeq(s, 1, Len(s) - 1)

RECURSIVE SumSeq(_)
SumSeq(s) == IF s = <<>> THEN 0 ELSE Head(s) + SumSeq(Tail(s))

RECURSIVE Concat(_)
Concat(ss) == IF ss = <<>> THEN <<>> ELSE Head(ss) \o Concat(Tail(ss))

Abs(n) == IF n < 0 THEN -n ELSE n

Min2(a, b) == IF a < b THEN a ELSE b

Max2(a, b) == IF a > b THEN a ELSE b

RECURSIVE MaxOf(_)
MaxOf(s) == IF Len(s) = 1 THEN s[1]
            ELSE LET m == MaxOf(Tail(s)) IN IF s[1] > m THEN s[1] ELSE m

RECURSIVE MinOf(_)
MinOf(s) == IF Len(s) = 1 THEN s[1]
            ELSE LET m == MinOf(Tail(s)) IN IF s[1] < m THEN s[1] ELSE m

Xs(cells) == [i \in DOMAIN cells |-> cells[i][1]]

Ys(cells) == [i \in DOMAIN cells |-> cells[i][2]]

\* the comparator (a,b) => a[1]-b[1] || a[0]-b[0]: by y, then by x
CellBefore(a, b) == a[2] < b[2] \/ (a[2] = b[2] /\ a[1] < b[1])

\* Array.prototype.sort under that comparator: a stable insertion sort (the
\* last element goes behind every element it does not precede)
RECURSIVE InsertCell(_, _)
InsertCell(e, s) ==
    IF s = <<>> THEN <<e>>
    ELSE IF CellBefore(e, Last(s)) THEN Append(InsertCell(e, Front(s)), Last(s))
    ELSE Append(s, e)

RECURSIVE SortCells(_)
SortCells(cells) ==
    IF cells = <<>> THEN <<>>
    ELSE InsertCell(Last(cells), SortCells(Front(cells)))

(***************************************************************************)
(* Strings as sequences of character codes.                                *)
(***************************************************************************)
ChComma == 44
ChSemi == 59
ChBar == 124
ChZero == 48
ChMinus == 45

RECURSIVE NatStr(_)
NatStr(n) == IF n < 10 THEN <<ChZero + n>>
             ELSE NatStr(n \div 10) \o <<ChZero + (n % 10)>>

\* String(n) of an integer
NumStr(n) == IF n < 0 THEN <<ChMinus>> \o NatStr(-n) ELSE NatStr(n)

\* `${x},${y}`
CellStr(c) == NumStr(c[1]) \o <<ChComma>> \o NumStr(c[2])

\* Array.prototype.join
RECURSIVE Join(_, _)
Join(ss, sep) ==
    IF ss = <<>> THEN <<>>
    ELSE IF Len(ss) = 1 THEN ss[1]
    ELSE ss[1] \o <<sep>> \o Join(Tail(ss), sep)

\* String.prototype.split on a one-character separator
RECURSIVE SplitAcc(_, _, _)
SplitAcc(s, sep, cur) ==
    IF s = <<>> THEN <<cur>>
    ELSE IF s[1] = sep THEN <<cur>> \o SplitAcc(Tail(s), sep, <<>>)
    ELSE SplitAcc(Tail(s), sep, Append(cur, s[1]))

Split(s, sep) == SplitAcc(s, sep, <<>>)

\* Number(str) of a decimal integer literal
RECURSIVE DigitsVal(_, _)
DigitsVal(s, acc) ==
    IF s = <<>> THEN acc ELSE DigitsVal(Tail(s), 10 * acc + (s[1] - ChZero))

ParseNum(s) == IF s # <<>> /\ s[1] = ChMinus THEN -DigitsVal(Tail(s), 0)
               ELSE DigitsVal(s, 0)

\* the < of two JavaScript strings: lexicographic by code unit
RECURSIVE StrLess(_, _)
StrLess(a, b) ==
    IF b = <<>> THEN FALSE
    ELSE IF a = <<>> THEN TRUE
    ELSE IF a[1] # b[1] THEN a[1] < b[1]
    ELSE StrLess(Tail(a), Tail(b))

SelectSeqNonEmpty(ss) == SelectSeq(ss, LAMBDA p : p # <<>>)

(***************************************************************************)
(* Geometry: shapes and their orientations.                                *)
(***************************************************************************)
\* normShape without the sort: the cells moved to the origin, in input order
normShapeNoSort(cells) ==
    LET minx == MinOf(Xs(cells))
        miny == MinOf(Ys(cells))
    IN  [i \in DOMAIN cells |-> <<cells[i][1] - minx, cells[i][2] - miny>>]

normShape(cells) ==
    LET minx == MinOf(Xs(cells))
        miny == MinOf(Ys(cells))
    IN  SortCells([i \in DOMAIN cells |->
                     <<cells[i][1] - minx, cells[i][2] - miny>>])

rot90(c) == [i \in DOMAIN c |-> <<-c[i][2], c[i][1]>>]

reflX(c) == [i \in DOMAIN c |-> <<-c[i][1], c[i][2]>>]

\* the key under which orientations() remembers a shape
ShapeKey(n) == Join([i \in DOMAIN n |-> CellStr(n[i])], ChSemi)

\* k.split(";").filter(Boolean).map(p => p.split(",").map(Number))
ParseShape(k) ==
    LET parts == SelectSeqNonEmpty(Split(k, ChSemi))
    IN  [i \in DOMAIN parts |->
           LET xy == Split(parts[i], ChComma)
           IN  [j \in DOMAIN xy |-> ParseNum(xy[j])]]

\* the insertion-ordered Set `seen` after pushing the keys of ks in order
RECURSIVE PushAll(_, _)
PushAll(ks, seen) ==
    IF ks = <<>> THEN seen
    ELSE PushAll(Tail(ks),
                 IF Head(ks) \in Range(seen) THEN seen ELSE Append(seen, Head(ks)))

\* orientations keeping every candidate, equal ones included
orientationsNoDedup(base, rot, refl) ==
    LET r1 == rot90(base)
        r2 == rot90(r1)
        r3 == rot90(r2)
        cand == IF rot THEN <<base, r1, r2, r3>> ELSE <<base>>
        pushed == Concat([i \in DOMAIN cand |->
                    IF refl THEN <<cand[i], reflX(cand[i])>> ELSE <<cand[i]>>])
    IN  [i \in DOMAIN pushed |-> ParseShape(ShapeKey(normShape(pushed[i])))]

orientations(base, rot, refl) ==
    LET r1 == rot90(base)
        r2 == rot90(r1)
        r3 == rot90(r2)
        cand == IF rot THEN <<base, r1, r2, r3>> ELSE <<base>>
        pushed == Concat([i \in DOMAIN cand |->
                    IF refl THEN <<cand[i], reflX(cand[i])>> ELSE <<cand[i]>>])
        keys == [i \in DOMAIN pushed |-> ShapeKey(normShape(pushed[i]))]
        seen == PushAll(keys, <<>>)
    IN  [i \in DOMAIN seen |-> ParseShape(seen[i])]

(***************************************************************************)
(* The board and its symmetries.                                           *)
(***************************************************************************)
\* the free cells in row-major order (y outer, x inner)
boardCells(W, H, holes) ==
    LET all == [i \in 1..(W * H) |-> <<(i - 1) % W, (i - 1) \div W>>]
    IN  SelectSeq(all, LAMBDA c : c \notin holes)

\* the transforms by name; ApplyT is the arrow function of that name
boardSymTransforms(W, H) ==
    IF W = H THEN <<"r0", "r1", "r2", "r3", "fx", "fy", "fd", "fo">>
    ELSE <<"r0", "fx", "fy">>

ApplyT(f, W, H, c) ==
    LET x == c[1]
        y == c[2]
    IN  CASE f = "r0" -> <<x, y>>
          [] f = "fx" -> <<W - 1 - x, y>>
          [] f = "fy" -> <<x, H - 1 - y>>
          [] f = "r1" -> <<y, W - 1 - x>>
          [] f = "r2" -> <<W - 1 - x, H - 1 - y>>
          [] f = "r3" -> <<H - 1 - y, x>>
          [] f = "fd" -> <<y, x>>
          [] f = "fo" -> <<W - 1 - y, H - 1 - x>>

(***************************************************************************)
(* Tile types.  A payload tile type is a record with the fields of the     *)
(* external interface: name, base, allowRotate, allowReflect and, unless   *)
(* it is null, count.  Reading a field the record lacks yields undefined.  *)
(***************************************************************************)
HasCount(t) == "count" \in DOMAIN t


\* AtLimit with the stock test off by one (>, not >=)
AtLimitOffByOne(t, used) == HasCount(t) /\ used > t.count

\* tiles[ti].count ?? Infinity, as a test usedCounts[ti] >= limit
AtLimit(t, used) == HasCount(t) /\ used >= t.count

\* the argument t.allowRot of orientations(base, rot=true, refl=false): the
\* default applies when the field is undefined
allowRotArg(t) == IF "allowRot" \in DOMAIN t THEN t.allowRot ELSE TRUE

allowReflectArg(t) == IF "allowReflect" \in DOMAIN t THEN t.allowReflect ELSE FALSE

(***************************************************************************)
(* Placement enumeration.                                                  *)
(***************************************************************************)
Translate(o, ox, oy) == [i \in DOMAIN o |-> <<o[i][1] + ox, o[i][2] + oy>>]


\* PlacementsOfOrientation with the free-set test left out
PlacementsOfOrientationUnfiltered(W, H, boardSet, ti, o) ==
    LET maxx == MaxOf(Xs(o))
        maxy == MaxOf(Ys(o))
        nx == IF W - maxx > 0 THEN W - maxx ELSE 0
        ny == IF H - maxy > 0 THEN H - maxy ELSE 0
    IN  [k \in 1..(nx * ny) |->
           [ti |-> ti, cells |-> Translate(o, (k - 1) % nx, (k - 1) \div nx)]]

\* the placements of orientation o of tile ti, oy outer and ox inner
PlacementsOfOrientation(W, H, boardSet, ti, o) ==
    LET maxx == MaxOf(Xs(o))
        maxy == MaxOf(Ys(o))
        nx == IF W - maxx > 0 THEN W - maxx ELSE 0
        ny == IF H - maxy > 0 THEN H - maxy ELSE 0
        at(k) == Translate(o, (k - 1) % nx, (k - 1) \div nx)
        all == [k \in 1..(nx * ny) |-> [ti |-> ti, cells |-> at(k)]]
    IN  SelectSeq(all, LAMBDA p : Range(p.cells) \subseteq boardSet)

precomputePlacements(W, H, boardSet, tiles) ==
    Concat([ti \in DOMAIN tiles |->
        LET os == orientations(tiles[ti].base, allowRotArg(tiles[ti]),
                               allowReflectArg(tiles[ti]))
        IN  Concat([j \in DOMAIN os |->
                PlacementsOfOrientation(W, H, boardSet, ti, os[j])])])

\* byCellOf indexing a placement under its first cell only
byCellOfFirstCell(plc, k) ==
    SelectSeq([i \in DOMAIN plc |-> i], LAMBDA pid : plc[pid].cells[1] = k)

\* byCell.get(k) || []: pid is pushed once for every cell of abs that is k,
\* in the order of the pids
byCellOf(plc, k) ==
    Concat([pid \in DOMAIN plc |->
        [j \in DOMAIN SelectSeq(plc[pid].cells, LAMBDA c : c = k) |-> pid]])

(***************************************************************************)
(* Canonical key of a complete layout.                                     *)
(***************************************************************************)
\* whether transform f maps boardSet onto itself (lines 88-93)
KeepsBoard(f, W, H, boardSet) ==
    LET TB == {ApplyT(f, W, H, c) : c \in boardSet}
    IN  Cardinality(TB) = Cardinality(boardSet) /\ boardSet \subseteq TB

\* the comparator of tPlac.sort: < 0 (negative), > 0 (positive) or 0
RECURSIVE CmpCellsFrom(_, _, _)
CmpCellsFrom(a, b, i) ==
    IF i > Min2(Len(a), Len(b)) THEN 0
    ELSE IF a[i][2] # b[i][2] THEN a[i][2] - b[i][2]
    ELSE IF a[i][1] # b[i][1] THEN a[i][1] - b[i][1]
    ELSE CmpCellsFrom(a, b, i + 1)

PlacCmp(A, B) ==
    LET c == CmpCellsFrom(A.cells, B.cells, 1)
    IN  IF c # 0 THEN c
        ELSE IF Len(A.cells) # Len(B.cells) THEN Len(A.cells) - Len(B.cells)
        ELSE A.ti - B.ti

RECURSIVE InsertPlac(_, _)
InsertPlac(e, s) ==
    IF s = <<>> THEN <<e>>
    ELSE IF PlacCmp(e, Last(s)) < 0 THEN Append(InsertPlac(e, Front(s)), Last(s))
    ELSE Append(s, e)

RECURSIVE SortPlac(_)
SortPlac(ps) ==
    IF ps = <<>> THEN <<>>
    ELSE InsertPlac(Last(ps), SortPlac(Front(ps)))

\* the string s of one transform f (lines 94-100)
LayoutStr(layout, f, W, H) ==
    LET tPlac == SortPlac([i \in DOMAIN layout |->
                   [ti |-> layout[i].ti,
                    cells |-> SortCells([j \in DOMAIN layout[i].cells |->
                                 ApplyT(f, W, H, layout[i].cells[j])])]])
    IN  Join([i \in DOMAIN tPlac |->
                Join([j \in DOMAIN tPlac[i].cells |-> CellStr(tPlac[i].cells[j])],
                     ChSemi)], ChBar)

\* best after the transforms of T, in order; "null" while none was kept
RECURSIVE BestOver(_, _, _, _, _, _)
BestOver(T, layout, W, H, boardSet, best) ==
    IF T = <<>> THEN best
    ELSE IF ~KeepsBoard(Head(T), W, H, boardSet)
         THEN BestOver(Tail(T), layout, W, H, boardSet, best)
    ELSE LET s == LayoutStr(layout, Head(T), W, H)
         IN  BestOver(Tail(T), layout, W, H, boardSet,
                      IF best = <<"null">> \/ StrLess(s, best) THEN s ELSE best)

canonicalKey(layout, W, H, useSym, boardSet) ==
    BestOver(IF useSym THEN boardSymTransforms(W, H) ELSE <<"r0">>,
             layout, W, H, boardSet, <<"null">>)

(***************************************************************************)
(* Pre-flight: fast impossibility tests.                                   *)
(***************************************************************************)
RECURSIVE gcd(_, _)
gcd(a, b) == IF b # 0 THEN gcd(b, a % b) ELSE Abs(a)

\* gcdMany taking the last area for the gcd of them all
gcdManyLastOnly(arr) == arr[Len(arr)]

RECURSIVE gcdMany(_)
gcdMany(arr) == IF Len(arr) = 1 THEN arr[1]
                ELSE gcd(gcdMany(Front(arr)), Last(arr))

\* |#black - #white| of a list of cells, black where (x + y) & 1
BWDelta(cells) ==
    LET black == Cardinality({i \in DOMAIN cells : (cells[i][1] + cells[i][2]) % 2 = 1})
    IN  Abs(black - (Len(cells) - black))

countBoardBW(cells) == BWDelta(cells)

tileBWDelta(shape) == BWDelta(shape)

\* Available counting a tile type whatever its stock
AvailableIgnoresCount(t) == TRUE

\* cnt > 0 where cnt = (t.count == null) ? Infinity : t.count
Available(t) == ~HasCount(t) \/ t.count > 0

\* the tile types the first loop of preflight does not skip
AvailableTiles(ts) == {i \in DOMAIN ts : Available(ts[i])}

\* maxArea when it is finite: the sum of cnt * areas[i]
FiniteMaxArea(ts) ==
    SumSeq([i \in DOMAIN ts |->
        IF i \in AvailableTiles(ts) /\ HasCount(ts[i])
        THEN ts[i].count * Len(ts[i].base) ELSE 0])

\* the areas of the tile types with positive or unbounded stock, in order
UsableAreas(ts) ==
    LET usable == SelectSeq([i \in DOMAIN ts |-> i], LAMBDA i : Available(ts[i]))
    IN  [j \in DOMAIN usable |-> Len(ts[usable[j]].base)]

\* the five tests of preflight, each TRUE when it pushes its reason
NoTilesTest(ts) == AvailableTiles(ts) = {}

AreaTest(N, ts) ==
    /\ \A i \in AvailableTiles(ts) : HasCount(ts[i])
    /\ FiniteMaxArea(ts) < N

ParityTest(N, ts) ==
    /\ N % 2 = 1
    /\ \A i \in AvailableTiles(ts) : Len(ts[i].base) % 2 = 0

GcdTest(N, ts) ==
    /\ UsableAreas(ts) # <<>>
    /\ N % gcdMany(UsableAreas(ts)) # 0

CheckerboardTest(free, ts) ==
    /\ \A i \in DOMAIN ts : tileBWDelta(ts[i].base) = 0
    /\ countBoardBW(free) # 0

\* the reasons, in the order preflight pushes them; a reason is its kind
\* followed by the numbers its text interpolates
PreflightReasons(W, H, holesSet, ts) ==
    LET free == boardCells(W, H, holesSet)
        N == Len(free)
    IN     (IF NoTilesTest(ts) THEN <<<<"noTiles">>>> ELSE <<>>)
        \o (IF AreaTest(N, ts) THEN <<<<"area", N, FiniteMaxArea(ts)>>>> ELSE <<>>)
        \o (IF ParityTest(N, ts) THEN <<<<"parity">>>> ELSE <<>>)
        \o (IF GcdTest(N, ts)
            THEN <<<<"gcd", N, gcdMany(UsableAreas(ts))>>>> ELSE <<>>)
        \o (IF CheckerboardTest(free, ts)
            THEN <<<<"checkerboard", countBoardBW(free)>>>> ELSE <<>>)

\* preflight reporting ok as long as at most one test failed
preflightOkUnlessMany(W, H, holesSet, ts) ==
    LET reasons == PreflightReasons(W, H, holesSet, ts)
    IN  [ok |-> Len(reasons) <= 1, reasons |-> reasons]

preflight(W, H, holesSet, ts) ==
    LET reasons == PreflightReasons(W, H, holesSet, ts)
    IN  [ok |-> reasons = <<>>, reasons |-> reasons]

(***************************************************************************)
(* The worker's state.                                                     *)
(*   inbox            the message events queued for the worker and not yet *)
(*                    dispatched to onmessage                              *)
(*   payload          the payload of the solve command being handled       *)
(*   pc               where the handler is: "idle" (command received),     *)
(*                    "dfs" (solveFirstExactCover), "rec"                  *)
(*                    (enumerateTilings), "done" (handler returned) or     *)
(*                    "wait" (no handler running)                          *)
(*   msgs             the messages posted so far                          *)
(*   placements       the placement table of the running search            *)
(*   usedCounts, nodes                 locals of either search             *)
(*   stack            the activation frames of dfs() or rec(), innermost   *)
(*                    last                                                 *)
(*   coveredCols, usedRow, solutionRows, bannedRowsStack                   *)
(*                    locals of solveFirstExactCover                       *)
(*   covered, usedPlacements, coveredCount, seen, solutions                *)
(*                    locals of enumerateTilings                           *)
(***************************************************************************)
\* the worker's state, and after it the state of the parts of the repository
\* that do not use the worker: `call` is a call of one of the worker's pure
\* functions on its own, `planner` the state of the interactive planner
\* component and `random` the state of the random solver component
VARIABLES inbox, payload, pc, msgs, placements, usedCounts, nodes, stack,
          coveredCols, usedRow, solutionRows, bannedRowsStack,
          covered, usedPlacements, coveredCount, seen, solutions,
          call, planner, random

workerVars == <<inbox, payload, pc, msgs, placements, usedCounts, nodes, stack,
                coveredCols, usedRow, solutionRows, bannedRowsStack,
                covered, usedPlacements, coveredCount, seen, solutions>>

auxVars == <<call, planner, random>>

vars == <<workerVars, auxVars>>

\* the value of a variable of a part that is not running
Absent == <<>>

firstVars == <<coveredCols, usedRow, solutionRows, bannedRowsStack>>

enumVars == <<covered, usedPlacements, coveredCount, seen, solutions>>

\* progress is posted when the node counter is a multiple of this
ProgressEvery == 5000

\* capSolutions when neither maxSolutionsToEvaluate nor cap is given
DefaultCap == 1000

tiles == payload.tileTypes

freeCells == boardCells(payload.W, payload.H, payload.holes)

boardSet == Range(freeCells)

totalCells == Len(freeCells)

\* colIndex.get(`${x},${y}`)
colIndex(cell) == CHOOSE c \in DOMAIN freeCells : freeCells[c] = cell

\* rows[r].cols
rowCols(r) == [j \in DOMAIN placements[r].cells |-> colIndex(placements[r].cells[j])]

\* rows[r]._ti
rowTi(r) == placements[r].ti

\* colToRows[c]
colToRows(c) == byCellOf(placements, freeCells[c])

Top == stack[Len(stack)]

SetTop(f) == [stack EXCEPT ![Len(stack)] = f]

EnterFrame == [phase |-> "enter", cands |-> <<>>, i |-> 0, trail |-> <<>>]

\* Swap writing a[j] over a[i] without the exchange
SwapOverwriting(a, i, j) == [a EXCEPT ![i + 1] = a[j + 1]]

\* the Fisher-Yates loop "for i = n-1 .. 1: j = random in 0..i; swap a[i], a[j]",
\* js[i] being the j drawn at index i (0-based indices, as in the source)
Swap(a, i, j) == [a EXCEPT ![i + 1] = a[j + 1], ![j + 1] = a[i + 1]]

RECURSIVE ShuffleFrom(_, _, _)
ShuffleFrom(a, js, i) ==
    IF i < 1 THEN a ELSE ShuffleFrom(Swap(a, i, js[i]), js, i - 1)

Draws(n) == {js \in [1..(n - 1) -> 0..(n - 1)] : \A i \in 1..(n - 1) : js[i] <= i}

Shuffles(a) == {ShuffleFrom(a, js, Len(a) - 1) : js \in Draws(Len(a))}

\* ProgressMsgs reporting the nodes counted since the last progress message
ProgressMsgsSinceLast(n, found) ==
    IF n % ProgressEvery = 0
    THEN <<[type |-> "progress", nodes |-> ProgressEvery, found |-> found]>> ELSE <<>>

\* the messages a step posts when it brings the node counter to n
ProgressMsgs(n, found) ==
    IF n % ProgressEvery = 0
    THEN <<[type |-> "progress", nodes |-> n, found |-> found]>> ELSE <<>>

NoLayoutReason == <<"noLayout">>

InfeasibleMsg(reasons) == [type |-> "infeasible", reasons |-> reasons]

ErrorMsg(m) == [type |-> "error", message |-> m]

\* a result {found, layout, score}; a null layout or score is an absent field
NoResult == [found |-> 0]


\* PostResult with the return after the infeasible message left out
PostResultNoReturn(result) ==
    (IF "layout" \notin DOMAIN result
     THEN <<InfeasibleMsg(<<NoLayoutReason>>)>> ELSE <<>>)
    \o <<[type |-> "result"] @@ result>>

\* PostResult posting the (empty) pre-flight reasons of line 11 over again
PostResultPreflightReasons(result) ==
    IF "layout" \notin DOMAIN result
    THEN <<InfeasibleMsg(<<>>)>>
    ELSE <<[type |-> "result"] @@ result>>

\* lines 19-25 of the handler: what it posts for the result of the search
PostResult(result) ==
    IF "layout" \notin DOMAIN result
    THEN <<InfeasibleMsg(<<NoLayoutReason>>)>>
    ELSE <<[type |-> "result"] @@ result>>

(***************************************************************************)
(* solveFirstExactCover: Algorithm X for the first valid layout.           *)
(***************************************************************************)
\* the rows of column c that chooseColumn counts
UsableRows(c) ==
    SelectSeq(colToRows(c),
              LAMBDA r : ~usedRow[r] /\ ~AtLimit(tiles[rowTi(r)], usedCounts[rowTi(r)]))

\* the scan of chooseColumn from column c on; 0 stands for -1
RECURSIVE ScanColumns(_, _, _)
ScanColumns(c, best, bestLen) ==
    IF c > totalCells THEN best
    ELSE IF coveredCols[c] THEN ScanColumns(c + 1, best, bestLen)
    ELSE LET cnt == Len(UsableRows(c))
         IN  IF cnt = 0 THEN c
             ELSE IF cnt < bestLen
                  THEN IF cnt = 1 THEN c ELSE ScanColumns(c + 1, c, cnt)
             ELSE ScanColumns(c + 1, best, bestLen)

chooseColumn == ScanColumns(1, 0, 1000000000)

\* the candidate rows dfs gathers for column c
Candidates(c) ==
    SelectSeq(UsableRows(c), LAMBDA r : \A cc \in Range(rowCols(r)) : ~coveredCols[cc])

allCovered == \A c \in DOMAIN coveredCols : coveredCols[c]

\* the rows chooseRow(r) bans: those on a column of r not yet used or banned,
\* r itself having been marked used first; in column order, each once
RECURSIVE BannedBy(_, _, _)
BannedBy(cols, used, acc) ==
    IF cols = <<>> THEN acc
    ELSE LET new == SelectSeq(colToRows(Head(cols)), LAMBDA r2 : ~used[r2])
         IN  BannedBy(Tail(cols),
                      [r2 \in DOMAIN used |-> used[r2] \/ r2 \in Range(new)],
                      acc \o new)

chooseRow(r) ==
    LET used1 == [usedRow EXCEPT ![r] = TRUE]
        bannedNow == BannedBy(rowCols(r), used1, <<>>)
    IN  /\ usedRow' = [r2 \in DOMAIN usedRow |-> used1[r2] \/ r2 \in Range(bannedNow)]
        /\ usedCounts' = [usedCounts EXCEPT ![rowTi(r)] = @ + 1]
        /\ bannedRowsStack' = Append(bannedRowsStack, bannedNow)
        /\ coveredCols' = [c \in DOMAIN coveredCols |->
                             coveredCols[c] \/ c \in Range(rowCols(r))]

\* unchooseRow leaving the banned rows banned
unchooseRowKeepingBans(r) ==
    /\ coveredCols' = [c \in DOMAIN coveredCols |->
                         coveredCols[c] /\ c \notin Range(rowCols(r))]
    /\ bannedRowsStack' = Front(bannedRowsStack)
    /\ usedRow' = [usedRow EXCEPT ![r] = FALSE]
    /\ usedCounts' = [usedCounts EXCEPT ![rowTi(r)] = @ - 1]

unchooseRow(r) ==
    LET bannedNow == Last(bannedRowsStack)
    IN  /\ coveredCols' = [c \in DOMAIN coveredCols |->
                             coveredCols[c] /\ c \notin Range(rowCols(r))]
        /\ bannedRowsStack' = Front(bannedRowsStack)
        /\ usedRow' = [r2 \in DOMAIN usedRow |->
                         usedRow[r2] /\ r2 \notin Range(bannedNow) /\ r2 # r]
        /\ usedCounts' = [usedCounts EXCEPT ![rowTi(r)] = @ - 1]

\* the bookkeeping of solveFirstExactCover as one value
FirstBook ==
    [coveredCols |-> coveredCols, usedRow |-> usedRow, usedCounts |-> usedCounts,
     bannedRowsStack |-> bannedRowsStack]

\* chooseRow(r, bannedRowsStack) as a function of the bookkeeping b
ChooseRowOn(b, r) ==
    LET used1 == [b.usedRow EXCEPT ![r] = TRUE]
        bannedNow == BannedBy(rowCols(r), used1, <<>>)
    IN  [coveredCols |-> [c \in DOMAIN b.coveredCols |->
                            b.coveredCols[c] \/ c \in Range(rowCols(r))],
         usedRow |-> [r2 \in DOMAIN b.usedRow |-> used1[r2] \/ r2 \in Range(bannedNow)],
         usedCounts |-> [b.usedCounts EXCEPT ![rowTi(r)] = @ + 1],
         bannedRowsStack |-> Append(b.bannedRowsStack, bannedNow)]

\* unchooseRow clearing every row of the columns of r
UnchooseRowOnByColumns(b, r) ==
    [coveredCols |-> [c \in DOMAIN b.coveredCols |->
                        b.coveredCols[c] /\ c \notin Range(rowCols(r))],
     usedRow |-> [r2 \in DOMAIN b.usedRow |->
                    b.usedRow[r2] /\ \A c \in Range(rowCols(r)) : r2 \notin Range(colToRows(c))],
     usedCounts |-> [b.usedCounts EXCEPT ![rowTi(r)] = @ - 1],
     bannedRowsStack |-> Front(b.bannedRowsStack)]

\* unchooseRow(r, bannedRowsStack) as a function of the bookkeeping b
UnchooseRowOn(b, r) ==
    LET bannedNow == Last(b.bannedRowsStack)
    IN  [coveredCols |-> [c \in DOMAIN b.coveredCols |->
                            b.coveredCols[c] /\ c \notin Range(rowCols(r))],
         usedRow |-> [r2 \in DOMAIN b.usedRow |->
                        b.usedRow[r2] /\ r2 \notin Range(bannedNow) /\ r2 # r],
         usedCounts |-> [b.usedCounts EXCEPT ![rowTi(r)] = @ - 1],
         bannedRowsStack |-> Front(b.bannedRowsStack)]

\* the layout built from the chosen rows
FirstLayout == [k \in DOMAIN solutionRows |-> placements[solutionRows[k]]]

\* dfs() from its entry to the shuffle of the candidates
DfsEnter ==
    /\ pc = "dfs"
    /\ Top.phase = "enter"
    /\ nodes' = nodes + 1
    /\ UNCHANGED <<auxVars, inbox, payload, placements, usedCounts, firstVars, enumVars>>
    /\ IF allCovered
       THEN \* true is returned through every frame; the handler posts the result
            /\ msgs' = msgs \o ProgressMsgs(nodes + 1, 0)
                            \o PostResult([found |-> 1, layout |-> FirstLayout])
            /\ stack' = <<>>
            /\ pc' = "done"
       ELSE LET c == chooseColumn
                cands == IF c = 0 THEN <<>> ELSE Candidates(c)
            IN  /\ msgs' = msgs \o ProgressMsgs(nodes + 1, 0)
                /\ pc' = pc
                /\ IF cands = <<>>
                   THEN stack' = SetTop([Top EXCEPT !.phase = "ret"])
                   ELSE \E sh \in Shuffles(cands) :
                          stack' = SetTop([Top EXCEPT !.phase = "loop",
                                                      !.cands = sh, !.i = 1])

\* one iteration of "for (const r of candidates)" up to the recursive call
DfsTry ==
    /\ pc = "dfs"
    /\ Top.phase = "loop"
    /\ Top.i <= Len(Top.cands)
    /\ chooseRow(Top.cands[Top.i])
    /\ solutionRows' = Append(solutionRows, Top.cands[Top.i])
    /\ stack' = Append(stack, EnterFrame)
    /\ UNCHANGED <<auxVars, inbox, payload, pc, msgs, placements, nodes, enumVars>>

\* dfs() returns false: to the caller's loop, or to solveFirstExactCover
DfsReturn ==
    /\ pc = "dfs"
    /\ Top.phase = "ret" \/ (Top.phase = "loop" /\ Top.i > Len(Top.cands))
    /\ UNCHANGED <<auxVars, inbox, payload, placements, nodes, enumVars>>
    /\ IF Len(stack) = 1
       THEN /\ stack' = <<>>
            /\ pc' = "done"
            /\ msgs' = msgs \o PostResult(NoResult)
            /\ UNCHANGED <<usedCounts, firstVars>>
       ELSE LET caller == stack[Len(stack) - 1]
            IN  /\ solutionRows' = Front(solutionRows)
                /\ unchooseRow(caller.cands[caller.i])
                /\ stack' = [Front(stack) EXCEPT ![Len(stack) - 1].i = caller.i + 1]
                /\ UNCHANGED <<pc, msgs>>

(***************************************************************************)
(* enumerateTilings: the capped enumeration of layouts.                    *)
(***************************************************************************)
\* capSolutions with `cap` taking precedence: cap || maxSolutionsToEvaluate || 1000
capSolutionsCapFirst ==
    LET b == payload.balance
    IN  IF "cap" \in DOMAIN payload /\ payload.cap # 0 THEN payload.cap
        ELSE IF "maxSolutionsToEvaluate" \in DOMAIN b /\ b.maxSolutionsToEvaluate # 0
        THEN b.maxSolutionsToEvaluate
        ELSE DefaultCap

\* balance.maxSolutionsToEvaluate || cap || 1000
capSolutions ==
    LET b == payload.balance
    IN  IF "maxSolutionsToEvaluate" \in DOMAIN b /\ b.maxSolutionsToEvaluate # 0
        THEN b.maxSolutionsToEvaluate
        ELSE IF "cap" \in DOMAIN payload /\ payload.cap # 0 THEN payload.cap
        ELSE DefaultCap

\* the bookkeeping place() and unplace() update, as one record
Book == [usedCounts |-> usedCounts, covered |-> covered,
         usedPlacements |-> usedPlacements, coveredCount |-> coveredCount]

place(b, pid) ==
    LET p == placements[pid]
    IN  [usedCounts |-> [b.usedCounts EXCEPT ![p.ti] = @ + 1],
         covered |-> b.covered \cup Range(p.cells),
         usedPlacements |-> Append(b.usedPlacements, pid),
         coveredCount |-> b.coveredCount + Len(p.cells)]

\* usedPlacements.pop() removes the last element, whichever pid it is
unplace(b, pid) ==
    LET p == placements[pid]
    IN  [usedCounts |-> [b.usedCounts EXCEPT ![p.ti] = @ - 1],
         covered |-> b.covered \ Range(p.cells),
         usedPlacements |-> IF b.usedPlacements = <<>> THEN <<>>
                            ELSE Front(b.usedPlacements),
         coveredCount |-> b.coveredCount - Len(p.cells)]

\* while (trail.length) unplace(trail.pop())
RECURSIVE UnwindTrail(_, _)
UnwindTrail(b, trail) ==
    IF trail = <<>> THEN b
    ELSE UnwindTrail(unplace(b, Last(trail)), Front(trail))

SetBook(b) ==
    /\ usedCounts' = b.usedCounts
    /\ covered' = b.covered
    /\ usedPlacements' = b.usedPlacements
    /\ coveredCount' = b.coveredCount


\* validPidsForCell with the covered test left out
validPidsForCellNoOverlapTest(k) ==
    SelectSeq(byCellOf(placements, k),
              LAMBDA pid : ~AtLimit(tiles[placements[pid].ti],
                                    usedCounts[placements[pid].ti]))

validPidsForCell(k) ==
    SelectSeq(byCellOf(placements, k),
              LAMBDA pid : /\ ~AtLimit(tiles[placements[pid].ti],
                                       usedCounts[placements[pid].ti])
                           /\ Range(placements[pid].cells) \cap covered = {})

\* the scan of chooseCellAndPids from the i-th free cell on; cell <<>> is null
RECURSIVE ScanCells(_, _, _, _)
ScanCells(i, bestCell, bestPids, bestLen) ==
    IF i > totalCells THEN [cell |-> bestCell, pids |-> bestPids]
    ELSE IF freeCells[i] \in covered THEN ScanCells(i + 1, bestCell, bestPids, bestLen)
    ELSE LET cands == validPidsForCell(freeCells[i])
             len == Len(cands)
         IN  IF len = 0 THEN [cell |-> freeCells[i], pids |-> <<>>]
             ELSE IF len < bestLen
                  THEN IF len = 1 THEN [cell |-> freeCells[i], pids |-> cands]
                       ELSE ScanCells(i + 1, freeCells[i], cands, len)
             ELSE ScanCells(i + 1, bestCell, bestPids, bestLen)

chooseCellAndPids == ScanCells(1, <<>>, <<>>, 1000000000)

\* the layout of the placements in use
CurrentLayout == [k \in DOMAIN usedPlacements |-> placements[usedPlacements[k]]]

\* the progress callback solveBalanced passes to enumerateTilings
EnumProgressMsgs(n, found) ==
    IF n % ProgressEvery = 0 /\ found % 10 = 0
    THEN <<[type |-> "progress", nodes |-> n, found |-> found]>> ELSE <<>>

\* rec() at its entry: the cap test
RecEnter ==
    /\ pc = "rec"
    /\ Top.phase = "enter"
    /\ stack' = SetTop([Top EXCEPT !.phase =
                   IF Len(solutions) >= capSolutions THEN "ret" ELSE "loop"])
    /\ UNCHANGED <<auxVars, inbox, payload, pc, msgs, placements, usedCounts, nodes, firstVars, enumVars>>

\* one iteration of rec()'s while (true)
RecStep ==
    /\ pc = "rec"
    /\ Top.phase = "loop"
    /\ UNCHANGED <<auxVars, inbox, payload, pc, placements, firstVars>>
    /\ IF coveredCount = totalCells
       THEN \* a full layout: deduplicate, then unwind the forced moves and return
            LET layout == CurrentLayout
                key == canonicalKey(layout, payload.W, payload.H,
                                    payload.uniqueByBoardSymmetry, boardSet)
            IN  /\ seen' = seen \cup {key}
                /\ solutions' = IF key \in seen THEN solutions
                                ELSE Append(solutions, layout)
                /\ SetBook(UnwindTrail(Book, Top.trail))
                /\ stack' = SetTop([Top EXCEPT !.phase = "ret", !.trail = <<>>])
                /\ UNCHANGED <<msgs, nodes>>
       ELSE LET pids == chooseCellAndPids.pids
            IN  IF pids = <<>>
                THEN \* dead end under the current forced moves
                     /\ SetBook(UnwindTrail(Book, Top.trail))
                     /\ stack' = SetTop([Top EXCEPT !.phase = "ret", !.trail = <<>>])
                     /\ UNCHANGED <<msgs, nodes, seen, solutions>>
                ELSE IF Len(pids) = 1
                THEN \* forced move
                     /\ SetBook(place(Book, pids[1]))
                     /\ stack' = SetTop([Top EXCEPT !.trail = Append(@, pids[1])])
                     /\ nodes' = nodes + 1
                     /\ msgs' = msgs \o EnumProgressMsgs(nodes + 1, Len(solutions))
                     /\ UNCHANGED <<seen, solutions>>
                ELSE \* branching point: shuffle
                     /\ \E sh \in Shuffles(pids) :
                          stack' = SetTop([Top EXCEPT !.phase = "branch",
                                                      !.cands = sh, !.i = 1])
                     /\ UNCHANGED <<msgs, nodes, usedCounts, enumVars>>

\* one iteration of "for (const pid of pids)" up to the recursive call
RecBranch ==
    /\ pc = "rec"
    /\ Top.phase = "branch"
    /\ Top.i <= Len(Top.cands)
    /\ SetBook(place(Book, Top.cands[Top.i]))
    /\ nodes' = nodes + 1
    /\ msgs' = msgs \o EnumProgressMsgs(nodes + 1, Len(solutions))
    /\ stack' = Append(stack, EnterFrame)
    /\ UNCHANGED <<auxVars, inbox, payload, pc, placements, firstVars, seen, solutions>>

\* rec() returns to the loop of the calling rec()
RecReturn ==
    /\ pc = "rec"
    /\ Top.phase = "ret"
    /\ Len(stack) > 1
    /\ UNCHANGED <<auxVars, inbox, payload, pc, msgs, placements, nodes, firstVars, seen, solutions>>
    /\ LET caller == stack[Len(stack) - 1]
           pid == caller.cands[caller.i]
       IN  IF Len(solutions) >= capSolutions
           THEN /\ SetBook(UnwindTrail(Book, caller.trail))
                /\ stack' = [Front(stack) EXCEPT ![Len(stack) - 1].phase = "ret",
                                                 ![Len(stack) - 1].trail = <<>>]
           ELSE IF caller.i < Len(caller.cands)
           THEN /\ SetBook(unplace(Book, pid))
                /\ stack' = [Front(stack) EXCEPT ![Len(stack) - 1].i = caller.i + 1]
           ELSE \* the loop is over: unwind the forced moves and return
                /\ SetBook(UnwindTrail(unplace(Book, pid), caller.trail))
                /\ stack' = [Front(stack) EXCEPT ![Len(stack) - 1].phase = "ret",
                                                 ![Len(stack) - 1].trail = <<>>]

(***************************************************************************)
(* Balance score.  A score is the exact rational <<n, d>>, d > 0, of the   *)
(* source's floating-point expression; 1e-6 is 1 / MixEpsInv.              *)
(***************************************************************************)
MixEpsInv == 1000000

RatNorm(n, d) == LET g == gcd(Abs(n), d) IN IF g = 0 THEN <<0, 1>> ELSE <<n \div g, d \div g>>

RatAdd(a, b) == RatNorm(a[1] * b[2] + b[1] * a[2], a[2] * b[2])

RatScale(w, a) == RatNorm(w * a[1], a[2])

\* a < b, by comparing integer parts and then the inverted fractional parts
RECURSIVE RatLess(_, _)
RatLess(a, b) ==
    LET qa == a[1] \div a[2]
        qb == b[1] \div b[2]
        ra == a[1] % a[2]
        rb == b[1] % b[2]
    IN  IF qa # qb THEN qa < qb
        ELSE IF ra = 0 THEN rb > 0
        ELSE IF rb = 0 THEN FALSE
        ELSE RatLess(<<b[2], rb>>, <<a[2], ra>>)

\* Object.keys(countsByTile): the names of the layout's tiles, in order of
\* first occurrence
RECURSIVE NamesOf(_, _, _)
NamesOf(ts, layout, acc) ==
    IF layout = <<>> THEN acc
    ELSE LET nm == ts[Head(layout).ti].name
         IN  NamesOf(ts, Tail(layout), IF nm \in Range(acc) THEN acc ELSE Append(acc, nm))

CountOfName(ts, layout, nm) == Cardinality({i \in DOMAIN layout : ts[layout[i].ti].name = nm})

RECURSIVE SumOver(_, _)
SumOver(f, ks) ==
    IF ks = {} THEN 0
    ELSE LET k == CHOOSE k \in ks : TRUE IN f[k] + SumOver(f, ks \ {k})

\* desiredMix is a function from names to weights; it is absent when the
\* balance config has no desiredMix field
mixError(ts, layout, cfg) ==
    LET names == NamesOf(ts, layout, <<>>)
        n == Len(names)
        counts == [i \in DOMAIN names |-> CountOfName(ts, layout, names[i])]
        S == SumSeq(counts)
    IN  IF n <= 1 THEN <<0, 1>>
        ELSE IF "desiredMix" \notin DOMAIN cfg
        THEN \* variance / (mean * mean + 1e-6)
             RatNorm((n * SumSeq([i \in DOMAIN counts |-> counts[i] * counts[i]]) - S * S)
                        * MixEpsInv,
                     S * S * MixEpsInv + n * n)
        ELSE LET mix == cfg.desiredMix
                 keys == DOMAIN mix
                 sum == SumOver(mix, keys)
                 total == IF S = 0 THEN 1 ELSE S
                 target(nm) == IF nm \in keys THEN mix[nm] ELSE 0
             IN  IF sum <= 0 THEN <<0, 1>>
                 ELSE RatNorm(SumSeq([i \in DOMAIN names |->
                                 (counts[i] * sum - target(names[i]) * total)
                               * (counts[i] * sum - target(names[i]) * total)]),
                              (total * sum) * (total * sum))

\* grid[y][x]: the index of the placement on cell <<x, y>>, 0 where the source
\* has -1 (layout indices count from 1 here)
makeGrid(W, H, layout) ==
    [y \in 0..(H - 1) |-> [x \in 0..(W - 1) |->
        LET on == {i \in DOMAIN layout : <<x, y>> \in Range(layout[i].cells)}
        IN  IF on = {} THEN 0 ELSE CHOOSE i \in on : \A j \in on : j <= i]]

\* the cost a line of cells adds: line[k] is the k-th cell of a row or column;
\* the result counts the runs' lengths, each worth 0.2
RECURSIVE LineRuns(_, _, _)
LineRuns(line, k, run) ==
    IF k > Len(line) THEN (IF run > 1 THEN run ELSE 0)
    ELSE IF line[k] # 0 /\ line[k - 1] # 0 /\ line[k] # line[k - 1]
         THEN LineRuns(line, k + 1, run + 1)
    ELSE (IF run > 1 THEN run ELSE 0) + LineRuns(line, k + 1, 0)

\* seamPenalty(grid) * 5
seamRuns(W, H, grid) ==
    SumSeq([r \in 1..H |-> LineRuns([k \in 1..W |-> grid[r - 1][k - 1]], 2, 0)])
  + SumSeq([c \in 1..W |-> LineRuns([k \in 1..H |-> grid[k - 1][c - 1]], 2, 0)])

\* crossJointCount(grid) * 10
crossJointCount(W, H, grid) ==
    Cardinality({xy \in (1..(W - 1)) \X (1..(H - 1)) :
        LET a == grid[xy[2] - 1][xy[1] - 1]
            b == grid[xy[2] - 1][xy[1]]
            c == grid[xy[2]][xy[1] - 1]
            d == grid[xy[2]][xy[1]]
        IN  a # 0 /\ b # 0 /\ c # 0 /\ d # 0 /\ Cardinality({a, b, c, d}) >= 3})

balanceScore(W, H, ts, layout, cfg) ==
    LET grid == makeGrid(W, H, layout)
        w(i) == MaxOf(Xs(layout[i].cells)) - MinOf(Xs(layout[i].cells)) + 1
        h(i) == MaxOf(Ys(layout[i].cells)) - MinOf(Ys(layout[i].cells)) + 1
        horiz == Cardinality({i \in DOMAIN layout : w(i) > h(i)})
        vert == Cardinality({i \in DOMAIN layout : w(i) < h(i)})
        mixErr == mixError(ts, layout, cfg)
        orientErr == IF horiz + vert > 0 THEN RatNorm(Abs(horiz - vert), horiz + vert)
                     ELSE <<0, 1>>
        seam == RatNorm(seamRuns(W, H, grid), 5)
        crosses == RatNorm(crossJointCount(W, H, grid), 10)
    IN  RatAdd(RatAdd(RatScale(cfg.weights.tileCountVariance, mixErr),
                      RatScale(cfg.weights.orientationBalance, orientErr)),
               RatAdd(RatScale(cfg.weights.seamPenalty, seam),
                      RatScale(cfg.weights.crossJoints, crosses)))

\* SelectFrom taking a later layout on equal scores (s <= bestScore)
RECURSIVE SelectFromLastOnTie(_, _, _, _)
SelectFromLastOnTie(scores, k, best, bestScore) ==
    IF k > Len(scores) THEN [best |-> best, bestScore |-> bestScore]
    ELSE IF best = 0 \/ ~RatLess(bestScore, scores[k])
         THEN SelectFromLastOnTie(scores, k + 1, k, scores[k])
    ELSE SelectFromLastOnTie(scores, k + 1, best, bestScore)

\* the fold of selectBestBalanced; best 0 is null and its score Infinity
RECURSIVE SelectFrom(_, _, _, _)
SelectFrom(scores, k, best, bestScore) ==
    IF k > Len(scores) THEN [best |-> best, bestScore |-> bestScore]
    ELSE IF best = 0 \/ RatLess(scores[k], bestScore)
         THEN SelectFrom(scores, k + 1, k, scores[k])
    ELSE SelectFrom(scores, k + 1, best, bestScore)

selectBestBalanced(W, H, ts, layouts, cfg) ==
    SelectFrom([k \in DOMAIN layouts |-> balanceScore(W, H, ts, layouts[k], cfg)],
               1, 0, <<>>)

(***************************************************************************)
(* The message handler.                                                    *)
(***************************************************************************)
IsNoBalance == "noBalance" \in DOMAIN payload.balance /\ payload.balance.noBalance


\* CountedArea counting the tiles, not their area
CountedTiles(ts) == SumSeq([i \in DOMAIN ts |->
                      IF HasCount(ts[i]) THEN ts[i].count ELSE 0])

\* the sum of count * base.length over the tile types with a count, which both
\* capacity checks compare with the number of free cells
CountedArea(ts) == SumSeq([i \in DOMAIN ts |->
                      IF HasCount(ts[i]) THEN ts[i].count * Len(ts[i].base) ELSE 0])

AllFinite(ts) == \A i \in DOMAIN ts : HasCount(ts[i])

\* solveFirstExactCover up to its first call of dfs()
StartFirst ==
    LET plc == precomputePlacements(payload.W, payload.H, boardSet, tiles)
    IN  /\ placements' = plc
        /\ coveredCols' = [c \in 1..totalCells |-> FALSE]
        /\ usedRow' = [r \in DOMAIN plc |-> FALSE]
        /\ usedCounts' = [ti \in DOMAIN tiles |-> 0]
        /\ solutionRows' = <<>>
        /\ bannedRowsStack' = <<>>
        /\ nodes' = 0
        /\ UNCHANGED enumVars
        /\ IF AllFinite(tiles) /\ CountedArea(tiles) < totalCells
           THEN \* quick capacity check
                /\ msgs' = msgs \o PostResult(NoResult)
                /\ pc' = "done"
                /\ stack' = <<>>
           ELSE /\ msgs' = msgs
                /\ pc' = "dfs"
                /\ stack' = <<EnterFrame>>

\* enumerateTilings up to its first call of rec()
StartEnum ==
    LET plc == precomputePlacements(payload.W, payload.H, boardSet, tiles)
    IN  /\ placements' = plc
        /\ UNCHANGED firstVars
        /\ IF AllFinite(tiles) /\ CountedArea(tiles) < totalCells
           THEN \* the capacity check throws; the handler catches
                /\ msgs' = Append(msgs, ErrorMsg("Not enough stone area to cover the patio."))
                /\ pc' = "done"
                /\ stack' = <<>>
                /\ UNCHANGED <<usedCounts, nodes, enumVars>>
           ELSE /\ covered' = {}
                /\ usedCounts' = [ti \in DOMAIN tiles |-> 0]
                /\ usedPlacements' = <<>>
                /\ seen' = {}
                /\ solutions' = <<>>
                /\ coveredCount' = 0
                /\ nodes' = 0
                /\ msgs' = msgs
                /\ pc' = "rec"
                /\ stack' = <<EnterFrame>>


\* Rejected when a single failed check does not stop the handler
RejectedOnlyMany(pf) == Len(pf.reasons) > 1

\* line 10: if (!pf.ok)
Rejected(pf) == ~pf.ok

\* self.onmessage for a solve command, up to the search
OnMessage ==
    /\ pc = "idle"
    /\ UNCHANGED <<auxVars, inbox, payload>>
    /\ LET pf == preflight(payload.W, payload.H, payload.holes, tiles)
       IN  IF Rejected(pf)
           THEN /\ msgs' = Append(msgs, InfeasibleMsg(pf.reasons))
                /\ pc' = "done"
                /\ UNCHANGED <<placements, usedCounts, nodes, stack, firstVars, enumVars>>
           ELSE IF IsNoBalance THEN StartFirst ELSE StartEnum

\* the outermost rec() returns: solveBalanced selects, the handler posts
RecFinish ==
    /\ pc = "rec"
    /\ Top.phase = "ret"
    /\ Len(stack) = 1
    /\ LET sel == selectBestBalanced(payload.W, payload.H, tiles, solutions,
                                     payload.balance)
           result == IF solutions = <<>> THEN NoResult
                     ELSE [found |-> Len(solutions), layout |-> solutions[sel.best],
                           score |-> sel.bestScore]
       IN  msgs' = msgs \o PostResult(result)
    /\ pc' = "done"
    /\ stack' = <<>>
    /\ UNCHANGED <<auxVars, inbox, payload, placements, usedCounts, nodes, firstVars, enumVars>>

(***************************************************************************)
(* The solve commands of the model.                                        *)
(***************************************************************************)
MonoBase == <<<<0, 0>>>>

DominoBase == <<<<0, 0>>, <<1, 0>>>>

BarBase == <<<<0, 0>>, <<1, 0>>, <<2, 0>>>>

TileType(name, base, rot, refl) ==
    [name |-> name, base |-> base, allowRotate |-> rot, allowReflect |-> refl]

WithCount(t, c) == t @@ [count |-> c]

\* a tile type with a stock of 0..MaxCount, or with that or unbounded stock
Counted(t) == {WithCount(t, c) : c \in 0..MaxCount}

Stocked(t) == {t} \cup Counted(t)

\* domino only, under every flag; a stock of monominoes and the domino,
\* unbounded or single; one of each of three
Catalogs ==
    {<<d>> : d \in UNION {Stocked(TileType("domino", DominoBase, r, f)) :
                            r \in BOOLEAN, f \in BOOLEAN}}
  \cup
    {<<m, d>> : m \in Counted(TileType("mono", MonoBase, FALSE, FALSE)),
                d \in {TileType("domino", DominoBase, FALSE, FALSE),
                       WithCount(TileType("domino", DominoBase, FALSE, FALSE), 1)}}
  \cup
    {<<WithCount(TileType("mono", MonoBase, FALSE, FALSE), 1),
       WithCount(TileType("domino", DominoBase, FALSE, FALSE), 1),
       WithCount(TileType("bar", BarBase, FALSE, FALSE), 1)>>}

UnitWeights == [tileCountVariance |-> 1, orientationBalance |-> 1,
                seamPenalty |-> 1, crossJoints |-> 1]

\* balance and cap: first-only; balanced with the cap from `cap`; balanced
\* with maxSolutionsToEvaluate taking precedence over `cap`
Modes ==
    {[balance |-> [noBalance |-> TRUE]]}
  \cup
    {[balance |-> [weights |-> UnitWeights], cap |-> c] : c \in 1..MaxCap}
  \cup
    {[balance |-> [weights |-> UnitWeights, maxSolutionsToEvaluate |-> 1],
      cap |-> MaxCap]}

\* balanced with neither maxSolutionsToEvaluate nor `cap`
UncappedMode == [balance |-> [weights |-> UnitWeights]]

\* the catalogs enumerated without a cap: the domino alone
UncappedCatalogs == {<<d>> : d \in Stocked(TileType("domino", DominoBase, TRUE, FALSE))}

AllCells(W, H) == (0..(W - 1)) \X (0..(H - 1))

\* the boards: at most MaxW wide, MaxH high and MaxCells cells
Boards == {b \in (1..MaxW) \X (1..MaxH) : b[1] * b[2] <= MaxCells}

\* the hole sets of a W x H board: at most MaxHoles of its cells
HoleSets(W, H) == {hs \in SUBSET AllCells(W, H) : Cardinality(hs) <= MaxHoles}

Payloads ==
    UNION {{[W |-> b[1], H |-> b[2], holes |-> holes, tileTypes |-> ts,
             uniqueByBoardSymmetry |-> u] @@ m :
               holes \in HoleSets(b[1], b[2]), ts \in Catalogs,
               u \in BOOLEAN, m \in Modes} : b \in Boards}
  \cup
    UNION {{[W |-> b[1], H |-> b[2], holes |-> holes, tileTypes |-> ts,
             uniqueByBoardSymmetry |-> u] @@ UncappedMode :
               holes \in HoleSets(b[1], b[2]), ts \in UncappedCatalogs,
               u \in BOOLEAN} : b \in Boards}

Init ==
    /\ inbox = <<>>
    /\ payload \in Payloads
    /\ pc = "idle"
    /\ msgs = <<>>
    /\ placements = <<>>
    /\ usedCounts = <<>>
    /\ nodes = 0
    /\ stack = <<>>
    /\ coveredCols = <<>>
    /\ usedRow = <<>>
    /\ solutionRows = <<>>
    /\ bannedRowsStack = <<>>
    /\ covered = {}
    /\ usedPlacements = <<>>
    /\ coveredCount = 0
    /\ seen = {}
    /\ solutions = <<>>
    /\ call = Absent
    /\ planner = Absent
    /\ random = Absent

Next ==
    \/ OnMessage
    \/ DfsEnter
    \/ DfsTry
    \/ DfsReturn
    \/ RecEnter
    \/ RecStep
    \/ RecBranch
    \/ RecReturn
    \/ RecFinish

Spec == Init /\ [][Next]_vars

(***************************************************************************)
(* Solve commands on strips: boards one cell high with StripHoles holes,   *)
(* which cut the strip into pockets.  The catalogs are the stocks of       *)
(* monominoes with the domino, and one with two tile types of the          *)
(* monomino's shape.                                                       *)
(***************************************************************************)
TwinCatalog == <<WithCount(TileType("mono", MonoBase, FALSE, FALSE), 2),
                 WithCount(TileType("mono2", MonoBase, FALSE, FALSE), 1),
                 TileType("domino", DominoBase, FALSE, FALSE)>>

StripLen == 6

StripHoles == 2

StripPayloads ==
    {[W |-> StripLen, H |-> 1, holes |-> holes, tileTypes |-> ts,
      uniqueByBoardSymmetry |-> u] @@ m :
        holes \in {hs \in SUBSET AllCells(StripLen, 1) : Cardinality(hs) = StripHoles},
        ts \in {c \in Catalogs : Len(c) = 2} \cup {TwinCatalog},
        u \in BOOLEAN, m \in Modes}

StripInit ==
    /\ inbox = <<>>
    /\ payload \in StripPayloads
    /\ pc = "idle"
    /\ msgs = <<>>
    /\ placements = <<>>
    /\ usedCounts = <<>>
    /\ nodes = 0
    /\ stack = <<>>
    /\ coveredCols = <<>>
    /\ usedRow = <<>>
    /\ solutionRows = <<>>
    /\ bannedRowsStack = <<>>
    /\ covered = {}
    /\ usedPlacements = <<>>
    /\ coveredCount = 0
    /\ seen = {}
    /\ solutions = <<>>
    /\ call = Absent
    /\ planner = Absent
    /\ random = Absent

StripSpec == StripInit /\ [][Next]_vars

(***************************************************************************)
(* The event loop around the handler.  Commands queue in the inbox and     *)
(* onmessage handles them one at a time.  The searches are reduced to      *)
(* what the messages depend on: the node counter and the layouts found     *)
(* (each stood for by an empty layout); the verdict of preflight and the   *)
(* outcome of a search are choices of the step.  A payload carries its     *)
(* balance and cap, and the ordinal `solve` of its command, which every    *)
(* message posted for it repeats; the ordinal is not in the source and     *)
(* only tells the messages of two commands apart.                          *)
(***************************************************************************)
MaxNodes == 10000

SolveCommand(m) == [cmd |-> "solve", payload |-> m]

\* a command the handler ignores (cmd !== 'solve')
OtherCommand == [cmd |-> "other"]

Commands ==
    {OtherCommand,
     SolveCommand([balance |-> [noBalance |-> TRUE]]),
     SolveCommand([balance |-> [weights |-> UnitWeights], cap |-> MaxCap])}

Numbered(q) ==
    [i \in DOMAIN q |->
        IF q[i].cmd = "solve" THEN [q[i] EXCEPT !.payload = @ @@ [solve |-> i]]
        ELSE q[i]]

\* one command, or two in a row
Inboxes ==
    {Numbered(<<c>>) : c \in Commands} \cup {Numbered(<<c, d>>) : c, d \in Commands}

Tagged(ms, solve) == [i \in DOMAIN ms |-> ms[i] @@ [solve |-> solve]]

loopVars == <<placements, usedCounts, stack, firstVars,
              covered, usedPlacements, coveredCount, seen, auxVars>>

LoopInit ==
    /\ inbox \in Inboxes
    /\ payload = <<>>
    /\ pc = "wait"
    /\ msgs = <<>>
    /\ placements = <<>>
    /\ usedCounts = <<>>
    /\ nodes = 0
    /\ stack = <<>>
    /\ coveredCols = <<>>
    /\ usedRow = <<>>
    /\ solutionRows = <<>>
    /\ bannedRowsStack = <<>>
    /\ covered = {}
    /\ usedPlacements = <<>>
    /\ coveredCount = 0
    /\ seen = {}
    /\ solutions = <<>>
    /\ call = Absent
    /\ planner = Absent
    /\ random = Absent


\* CanDispatch letting a message event in while a handler runs
CanDispatchAnytime == TRUE

\* onmessage is synchronous: the next message event is dispatched only after
\* the handler of the previous one has returned
CanDispatch == pc = "wait"

\* self.onmessage from its entry to the start of the search
LoopReceive ==
    /\ inbox # <<>>
    /\ CanDispatch
    /\ inbox' = Tail(inbox)
    /\ UNCHANGED loopVars
    /\ LET e == Head(inbox)
       IN  IF e.cmd # "solve"
           THEN UNCHANGED <<payload, pc, msgs, nodes, solutions>>
           ELSE /\ payload' = e.payload
                /\ \E reasons \in {<<>>, <<<<"noTiles">>>>} :
                     IF reasons # <<>>
                     THEN /\ msgs' = msgs \o Tagged(<<InfeasibleMsg(reasons)>>,
                                                    e.payload.solve)
                          /\ pc' = "wait"
                          /\ nodes' = 0
                          /\ solutions' = <<>>
                     ELSE /\ msgs' = msgs
                          /\ nodes' = 0
                          /\ solutions' = <<>>
                          /\ pc' = IF "noBalance" \in DOMAIN e.payload.balance
                                      /\ e.payload.balance.noBalance
                                   THEN "dfs" ELSE "rec"

\* dfs() is entered: the node is counted and progress posted
LoopDfsNode ==
    /\ pc = "dfs"
    /\ nodes < MaxNodes
    /\ nodes' = nodes + 1
    /\ msgs' = msgs \o Tagged(ProgressMsgs(nodes + 1, 0), payload.solve)
    /\ UNCHANGED <<inbox, payload, pc, solutions, loopVars>>

\* LoopDfsReturn with the node counter kept in a variable of the worker that
\* outlives the call
LoopDfsReturnKeepingNodes ==
    /\ pc = "dfs"
    /\ \E ok \in BOOLEAN :
         /\ ok => nodes >= 1
         /\ msgs' = msgs \o Tagged(PostResult(IF ok THEN [found |-> 1, layout |-> <<>>]
                                              ELSE NoResult), payload.solve)
    /\ pc' = "wait"
    /\ UNCHANGED <<inbox, payload, nodes, solutions, loopVars>>

\* solveFirstExactCover returns, with a layout or without, and the handler
\* posts; without a layout it may return before any node
LoopDfsReturn ==
    /\ pc = "dfs"
    /\ \E ok \in BOOLEAN :
         /\ ok => nodes >= 1
         /\ msgs' = msgs \o Tagged(PostResult(IF ok THEN [found |-> 1, layout |-> <<>>]
                                              ELSE NoResult), payload.solve)
    /\ pc' = "wait"
    /\ nodes' = 0
    /\ UNCHANGED <<inbox, payload, solutions, loopVars>>

\* rec() places a tile below the cap: the node is counted and the progress
\* callback called
LoopRecNode ==
    /\ pc = "rec"
    /\ Len(solutions) < capSolutions
    /\ nodes < MaxNodes
    /\ nodes' = nodes + 1
    /\ msgs' = msgs \o Tagged(EnumProgressMsgs(nodes + 1, Len(solutions)), payload.solve)
    /\ UNCHANGED <<inbox, payload, pc, solutions, loopVars>>

\* rec() retains a full layout
LoopRecFound ==
    /\ pc = "rec"
    /\ Len(solutions) < capSolutions
    /\ solutions' = Append(solutions, <<>>)
    /\ UNCHANGED <<inbox, payload, pc, msgs, nodes, loopVars>>

\* enumerateTilings returns, solveBalanced selects and the handler posts
LoopRecReturn ==
    /\ pc = "rec"
    /\ msgs' = msgs \o Tagged(PostResult(IF solutions = <<>> THEN NoResult
                                         ELSE [found |-> Len(solutions),
                                               layout |-> solutions[1],
                                               score |-> <<0, 1>>]), payload.solve)
    /\ pc' = "wait"
    /\ nodes' = 0
    /\ solutions' = <<>>
    /\ UNCHANGED <<inbox, payload, loopVars>>

LoopNext ==
    \/ LoopReceive
    \/ LoopDfsNode
    \/ LoopDfsReturn
    \/ LoopRecNode
    \/ LoopRecFound
    \/ LoopRecReturn

LoopSpec == LoopInit /\ [][LoopNext]_vars

(***************************************************************************)
(* The worker's pure functions called on their own: `call` holds the       *)
(* function's name, its arguments and, once it has returned, its value.    *)
(***************************************************************************)
MaxCoord == 0
MaxShapeCells == 3
MaxShift == 1
MaxLayoutLen == 3
MaxWeight == 2

Coords == -1..MaxCoord

\* the lists of distinct cells: a tile's base as a caller may write it
Shapes ==
    {s \in UNION {[1..n -> Coords \X Coords] : n \in 1..MaxShapeCells} :
        \A i, j \in DOMAIN s : i # j => s[i] # s[j]}

\* a catalog of two names; a desired mix may name a tile no layout uses
MixTiles == <<[name |-> "a"], [name |-> "b"]>>

MixNames == {"a", "b", "c"}

MixLayouts == UNION {[1..n -> [ti : DOMAIN MixTiles]] : n \in 0..MaxLayoutLen}

DesiredMixes == UNION {[D -> 0..MaxWeight] : D \in SUBSET MixNames}

MixConfigs ==
    {[weights |-> UnitWeights]}
  \cup
    {[weights |-> UnitWeights, desiredMix |-> m] : m \in DesiredMixes}

CallArgs ==
    {[cells |-> s] : s \in Shapes}
  \cup
    {[base |-> s, rot |-> r, refl |-> f] : s \in Shapes, r \in BOOLEAN, f \in BOOLEAN}
  \cup
    {[ts |-> MixTiles, layout |-> l, cfg |-> c] : l \in MixLayouts, c \in MixConfigs}

WorkerAbsent ==
    /\ inbox = Absent
    /\ payload = Absent
    /\ pc = Absent
    /\ msgs = Absent
    /\ placements = Absent
    /\ usedCounts = Absent
    /\ nodes = Absent
    /\ stack = Absent
    /\ coveredCols = Absent
    /\ usedRow = Absent
    /\ solutionRows = Absent
    /\ bannedRowsStack = Absent
    /\ covered = Absent
    /\ usedPlacements = Absent
    /\ coveredCount = Absent
    /\ seen = Absent
    /\ solutions = Absent

CallInit ==
    /\ WorkerAbsent
    /\ planner = Absent
    /\ random = Absent
    /\ call \in {[fn |-> "none", args |-> a, val |-> Absent] : a \in CallArgs}

CallNormShape ==
    /\ call.fn = "none"
    /\ "cells" \in DOMAIN call.args
    /\ call' = [call EXCEPT !.fn = "normShape", !.val = normShape(call.args.cells)]
    /\ UNCHANGED <<workerVars, planner, random>>

CallOrientations ==
    /\ call.fn = "none"
    /\ "base" \in DOMAIN call.args
    /\ call' = [call EXCEPT !.fn = "orientations",
                            !.val = orientations(call.args.base, call.args.rot,
                                                 call.args.refl)]
    /\ UNCHANGED <<workerVars, planner, random>>

CallMixError ==
    /\ call.fn = "none"
    /\ "layout" \in DOMAIN call.args
    /\ call' = [call EXCEPT !.fn = "mixError",
                            !.val = mixError(call.args.ts, call.args.layout,
                                             call.args.cfg)]
    /\ UNCHANGED <<workerVars, planner, random>>

CallNext ==
    \/ CallNormShape
    \/ CallOrientations
    \/ CallMixError

CallSpec == CallInit /\ [][CallNext]_vars

(***************************************************************************)
(* The interactive planner (src/unnamed/part_000).  The component's state  *)
(* is the record `planner`.  Lengths are in model units; the patio, the    *)
(* hole, the catalog and the inventory keep the roles they have in the     *)
(* source and are scaled down: the patio is PatioW by PatioH, the hole is  *)
(* one unit square flush with the right edge, and the catalog is reduced   *)
(* to an oblong and a square tile.  snap stays at its initial value 1, so  *)
(* mouse positions are whole units.  uid() is taken to return an id no     *)
(* placement in the plan or in the history carries.                        *)
(***************************************************************************)
PatioW == 2
PatioH == 2
MaxStock == 2
MaxEvents == 5

ORIGINAL_HOLE == [x |-> PatioW - 1, y |-> 1, w |-> 1, h |-> 1]

FIXED_INVENTORY == [k \in {"6x12", "8x8"} |-> IF k = "6x12" THEN MaxStock ELSE 1]

TILE_TYPES == <<[key |-> "6x12", w |-> 2, h |-> 1], [key |-> "8x8", w |-> 1, h |-> 1]>>

TYPE_INDEX == [k \in {TILE_TYPES[i].key : i \in DOMAIN TILE_TYPES} |->
                 CHOOSE i \in DOMAIN TILE_TYPES : TILE_TYPES[i].key = k]

rectsOverlap(a, b) ==
    a.x < b.x + b.w /\ a.x + a.w > b.x /\ a.y < b.y + b.h /\ a.y + a.h > b.y

insidePatio(r) == r.x >= 0 /\ r.y >= 0 /\ r.x + r.w <= PatioW /\ r.y + r.h <= PatioH

intersectsHole(r) == rectsOverlap(r, ORIGINAL_HOLE)

\* Math.round(v / grid) * grid for whole v: halves round up
snapValue(v, grid) == ((2 * v + grid) \div (2 * grid)) * grid

rotateSize(w, h) == [w |-> h, h |-> w]

\* canPlace(rect, placements): autofill passes no ignoreId
canPlace(rect, ps) ==
    /\ insidePatio(rect)
    /\ ~intersectsHole(rect)
    /\ \A i \in DOMAIN ps : ~rectsOverlap(rect, ps[i])

\* JSON.stringify of a list of placements, as the set of key/value pairs of
\* each, and JSON.parse of it
Stringify(ps) == [i \in DOMAIN ps |-> {<<f, ps[i][f]>> : f \in DOMAIN ps[i]}]

Parse(js) ==
    [i \in DOMAIN js |->
        [f \in {kv[1] : kv \in js[i]} |-> (CHOOSE kv \in js[i] : kv[1] = f)[2]]]

IdsOf(ps) == {ps[i].id : i \in DOMAIN ps}

\* the ids of the plan and of the snapshots on both stacks
IdsIn(pl) ==
    IdsOf(pl.placements)
  \cup UNION {IdsOf(Parse(pl.undoStack[k].placements)) : k \in DOMAIN pl.undoStack}
  \cup UNION {IdsOf(Parse(pl.redoStack[k].placements)) : k \in DOMAIN pl.redoStack}

\* uid(): an id not in use, the least one
uid(used) == CHOOSE n \in 1..(Cardinality(used) + 1) :
                n \notin used /\ \A m \in 1..(n - 1) : m \in used

\* [...TILE_TYPES].sort((a,b) => b.w*b.h - a.w*a.h): stable, largest area first
RECURSIVE InsertType(_, _)
InsertType(t, s) ==
    IF s = <<>> THEN <<t>>
    ELSE IF t.w * t.h > Last(s).w * Last(s).h THEN Append(InsertType(t, Front(s)), Last(s))
    ELSE Append(s, t)

RECURSIVE SortTypes(_)
SortTypes(ts) == IF ts = <<>> THEN <<>> ELSE InsertType(Last(ts), SortTypes(Front(ts)))

\* the point (x, y) is in the half-open rectangle of p
Covers(p, x, y) == x >= p.x /\ x < p.x + p.w /\ y >= p.y /\ y < p.y + p.h

\* the tries at one cell in order: every type, unrotated and then rotated
Tries(types) ==
    Concat([i \in DOMAIN types |-> <<[type |-> types[i], rot |-> FALSE],
                                     [type |-> types[i], rot |-> TRUE]>>])

\* the rectangle tryPlaceAt tests
TryRect(x, y, try) ==
    LET size == IF try.rot THEN rotateSize(try.type.w, try.type.h)
                ELSE [w |-> try.type.w, h |-> try.type.h]
    IN  [x |-> x, y |-> y, w |-> size.w, h |-> size.h]

\* tryPlaceAt(x, y, type, rot) returns true
tryPlaceAt(x, y, try, occupied, remainingInv) ==
    /\ remainingInv[try.type.key] > 0
    /\ canPlace(TryRect(x, y, try), occupied)

\* the scan of autofill from cell c on (y outer, x inner); `used` are the ids
\* taken so far
RECURSIVE AutofillFrom(_, _, _, _, _)
AutofillFrom(c, occupied, result, remainingInv, used) ==
    IF c >= PatioW * PatioH THEN result
    ELSE LET x == c % PatioW
             y == c \div PatioW
             tries == Tries(SortTypes(TILE_TYPES))
             ok == {k \in DOMAIN tries : tryPlaceAt(x, y, tries[k], occupied, remainingInv)}
         IN  IF \/ \E i \in DOMAIN occupied : Covers(occupied[i], x, y)
                \/ Covers(ORIGINAL_HOLE, x, y)
                \/ ok = {}
             THEN AutofillFrom(c + 1, occupied, result, remainingInv, used)
             ELSE LET try == tries[CHOOSE k \in ok : \A m \in ok : k <= m]
                      rect == TryRect(x, y, try)
                      id == uid(used)
                      tile == [id |-> id, key |-> try.type.key, x |-> x, y |-> y,
                               w |-> rect.w, h |-> rect.h, rot |-> try.rot, auto |-> TRUE]
                  IN  AutofillFrom(c + 1, Append(occupied, tile), Append(result, tile),
                                   [remainingInv EXCEPT ![try.type.key] = @ - 1],
                                   used \cup {id})

\* autofill(placements, remainingInv).added
autofill(ps, remainingInv, used) == AutofillFrom(0, ps, <<>>, remainingInv, used)

\* the memo usedCounts of the component
plannerUsedCounts(ps) ==
    [k \in DOMAIN FIXED_INVENTORY |-> Cardinality({i \in DOMAIN ps : ps[i].key = k})]

\* remaining with the used tiles not subtracted
remainingIgnoringUsed(ps) == FIXED_INVENTORY

remaining(ps) ==
    [k \in DOMAIN FIXED_INVENTORY |->
        LET r == FIXED_INVENTORY[k] - plannerUsedCounts(ps)[k] IN IF r > 0 THEN r ELSE 0]

\* drag and selectedId when null
NoDrag == [id |-> 0, dx |-> 0, dy |-> 0]

NoId == 0

pushHistory(pl) ==
    [pl EXCEPT !.undoStack = Append(@, [placements |-> Stringify(pl.placements)]),
               !.redoStack = <<>>]

undo(pl) ==
    IF pl.undoStack = <<>> THEN pl
    ELSE [pl EXCEPT !.undoStack = Front(@),
                    !.redoStack = Append(@, [placements |-> Stringify(pl.placements)]),
                    !.placements = Parse(Last(pl.undoStack).placements),
                    !.selectedId = NoId]

redo(pl) ==
    IF pl.redoStack = <<>> THEN pl
    ELSE [pl EXCEPT !.redoStack = Front(@),
                    !.undoStack = Append(@, [placements |-> Stringify(pl.placements)]),
                    !.placements = Parse(Last(pl.redoStack).placements),
                    !.selectedId = NoId]

\* placeAt at the point (x, y) of the patio
placeAt(pl, x, y) ==
    LET type == TILE_TYPES[TYPE_INDEX[pl.selectedKey]]
        sx == snapValue(x, pl.snap)
        sy == snapValue(y, pl.snap)
        rect == [x |-> sx, y |-> sy, w |-> type.w, h |-> type.h]
        p == [id |-> uid(IdsIn(pl)), key |-> pl.selectedKey, x |-> sx, y |-> sy,
              w |-> type.w, h |-> type.h, rot |-> FALSE]
    IN  IF remaining(pl.placements)[pl.selectedKey] <= 0 THEN pl
        ELSE IF intersectsHole(rect) THEN pl
        ELSE IF \E i \in DOMAIN pl.placements : rectsOverlap(rect, pl.placements[i]) THEN pl
        ELSE [pushHistory(pl) EXCEPT !.placements = Append(pl.placements, p),
                                     !.selectedId = p.id]

onMouseDown(pl, x, y) ==
    LET ps == pl.placements
        hits == {i \in DOMAIN ps : /\ x >= ps[i].x /\ x <= ps[i].x + ps[i].w
                                   /\ y >= ps[i].y /\ y <= ps[i].y + ps[i].h}
    IN  IF hits # {}
        THEN LET hit == ps[CHOOSE i \in hits : \A j \in hits : j <= i]
             IN  [pl EXCEPT !.selectedId = hit.id,
                            !.drag = [id |-> hit.id, dx |-> x - hit.x, dy |-> y - hit.y]]
        ELSE placeAt(pl, x, y)

onMouseMove(pl, x, y) ==
    IF pl.drag = NoDrag THEN pl
    ELSE [pl EXCEPT !.placements =
            [i \in DOMAIN @ |->
                IF @[i].id = pl.drag.id
                THEN [@[i] EXCEPT !.x = snapValue(x - pl.drag.dx, pl.snap),
                                  !.y = snapValue(y - pl.drag.dy, pl.snap)]
                ELSE @[i]]]

onMouseUp(pl) ==
    IF pl.drag = NoDrag THEN pl
    ELSE LET ps == pl.placements
             found == {i \in DOMAIN ps : ps[i].id = pl.drag.id}
         IN  IF found = {} THEN [pl EXCEPT !.drag = NoDrag]
             ELSE LET p == ps[CHOOSE i \in found : \A j \in found : i <= j]
                  IN  IF \/ intersectsHole(p)
                         \/ \E i \in DOMAIN ps : ps[i].id # p.id /\ rectsOverlap(p, ps[i])
                      THEN [undo(pl) EXCEPT !.drag = NoDrag]
                      ELSE [pushHistory(pl) EXCEPT !.drag = NoDrag]

rotateSelected(pl) ==
    LET ps == pl.placements
        found == {i \in DOMAIN ps : ps[i].id = pl.selectedId}
    IN  IF found = {} THEN pl
        ELSE LET k == CHOOSE i \in found : \A j \in found : i <= j
                 sel == ps[k]
                 type == TILE_TYPES[TYPE_INDEX[sel.key]]
                 newRot == ~sel.rot
                 size == IF newRot THEN rotateSize(type.w, type.h)
                         ELSE [w |-> type.w, h |-> type.h]
                 rect == [x |-> snapValue(sel.x, pl.snap), y |-> snapValue(sel.y, pl.snap),
                          w |-> size.w, h |-> size.h]
             IN  IF \/ intersectsHole(rect)
                    \/ \E i \in DOMAIN ps : ps[i].id # sel.id /\ rectsOverlap(rect, ps[i])
                 THEN pl
                 ELSE [pushHistory(pl) EXCEPT !.placements =
                         [i \in DOMAIN @ |->
                             IF @[i].id = sel.id
                             THEN [@[i] EXCEPT !.x = rect.x, !.y = rect.y, !.w = rect.w,
                                               !.h = rect.h, !.rot = newRot]
                             ELSE @[i]]]

deleteSelected(pl) ==
    IF pl.selectedId = NoId THEN pl
    ELSE [pushHistory(pl) EXCEPT
             !.placements = SelectSeq(@, LAMBDA p : p.id # pl.selectedId),
             !.selectedId = NoId]

doAutofill(pl) ==
    LET added == autofill(pl.placements, remaining(pl.placements), IdsIn(pl))
    IN  IF Len(added) > 0
        THEN [pushHistory(pl) EXCEPT !.placements = pl.placements \o added]
        ELSE pl

\* the Clear button
clearPlan(pl) == [pushHistory(pl) EXCEPT !.placements = <<>>]

\* the positions of the mouse over the drawing, in whole units
MousePoints == (0..PatioW) \X (0..1)

PlannerInit ==
    /\ WorkerAbsent
    /\ call = Absent
    /\ random = Absent
    /\ planner = [placements |-> <<>>, selectedKey |-> "6x12", selectedId |-> NoId,
                  drag |-> NoDrag, undoStack |-> <<>>, redoStack |-> <<>>, snap |-> 1, events |-> 0]

\* the component handles an event that changes its state to n (an event that
\* changes nothing is a stuttering step); `events` counts these events, and
\* the model follows the component for MaxEvents of them
Handles(n) ==
    /\ planner.events < MaxEvents
    /\ n # planner
    /\ planner' = [n EXCEPT !.events = @ + 1]

MouseDown ==
    /\ \E pt \in MousePoints : Handles(onMouseDown(planner, pt[1], pt[2]))
    /\ UNCHANGED <<workerVars, call, random>>

MouseMove ==
    /\ \E pt \in MousePoints : Handles(onMouseMove(planner, pt[1], pt[2]))
    /\ UNCHANGED <<workerVars, call, random>>

MouseUp ==
    /\ Handles(onMouseUp(planner))
    /\ UNCHANGED <<workerVars, call, random>>

Rotate ==
    /\ Handles(rotateSelected(planner))
    /\ UNCHANGED <<workerVars, call, random>>

Delete ==
    /\ Handles(deleteSelected(planner))
    /\ UNCHANGED <<workerVars, call, random>>

Clear ==
    /\ Handles(clearPlan(planner))
    /\ UNCHANGED <<workerVars, call, random>>

Autofill ==
    /\ Handles(doAutofill(planner))
    /\ UNCHANGED <<workerVars, call, random>>

Undo ==
    /\ Handles(undo(planner))
    /\ UNCHANGED <<workerVars, call, random>>

Redo ==
    /\ Handles(redo(planner))
    /\ UNCHANGED <<workerVars, call, random>>

\* a tile type is picked, by its button or its digit key
SelectKey ==
    /\ \E k \in DOMAIN FIXED_INVENTORY : Handles([planner EXCEPT !.selectedKey = k])
    /\ UNCHANGED <<workerVars, call, random>>

PlannerNext ==
    \/ MouseDown
    \/ MouseMove
    \/ MouseUp
    \/ Rotate
    \/ Delete
    \/ Clear
    \/ Autofill
    \/ Undo
    \/ Redo
    \/ SelectKey

PlannerSpec == PlannerInit /\ [][PlannerNext]_vars

(***************************************************************************)
(* The random solver (src/PatioTilingPlanner.jsx, second component).  One  *)
(* render of the component is followed: solveTileableRandom on the         *)
(* sections, solveFreehand, and the feasibility gate.  The state is the    *)
(* record `random`.  Inventory objects live in `objs` and are named by     *)
(* their index, so that a copy and an alias are different things.  The     *)
(* sections are scaled down to a 2x2, a 2x1 and a 1x2 grid of 12x6 cells;  *)
(* Pad-Left and the right border keep their sizes.  Math.random is a       *)
(* free choice: the shuffle visits the cells of a section in any order     *)
(* and pickWeighted returns any entry of positive weight.  Placements are  *)
(* kept as sets, their order in the lists being of no consequence.  The    *)
(* options of the solver have their default values.                        *)
(***************************************************************************)
Max6x12 == 4
Max12x12 == 2
MaxOdd == 1

SECTIONS ==
    << [id |-> "top-left", x |-> 0, y |-> 0, w |-> 24, h |-> 12],
       [id |-> "band-left", x |-> 0, y |-> 12, w |-> 24, h |-> 6],
       [id |-> "top-right", x |-> 24, y |-> 0, w |-> 12, h |-> 12] >>

PAD_LEFT == [x |-> 72, y |-> 36, w |-> 7, h |-> 30]

RIGHT_BORDER == [x |-> 96, y |-> 0, w |-> 8, h |-> 156]

OddKeys == {"8x16", "8x8", "16x16", "16x11", "16x12"}

\* the inventories the component's inputs can hold, up to the bounds
Inventories ==
    {[k \in {"6x12", "12x12"} \cup OddKeys |->
         IF k = "6x12" THEN a ELSE IF k = "12x12" THEN b ELSE o[k]] :
        a \in 0..Max6x12, b \in 0..Max12x12, o \in [OddKeys -> 0..MaxOdd]}

\* the defaults of opts; min1212Share is 0.1, here in percent
bias1212 == 2
bias6x12 == 1
min1212SharePct == 10

RECURSIVE totalCellsNeeded(_)
totalCellsNeeded(sections) ==
    IF sections = <<>> THEN 0
    ELSE totalCellsNeeded(Front(sections))
         + (Last(sections).w \div 12) * (Last(sections).h \div 6)

cellsSupply(inv) == 4 * inv["12x12"] + inv["6x12"]

padLeftAreaNeeded == PAD_LEFT.w * PAD_LEFT.h

oddAreaSupply(inv) ==
    64 * inv["8x8"] + 128 * inv["8x16"] + 256 * inv["16x16"]
    + 192 * inv["16x12"] + 176 * inv["16x11"]

\* the keys pickWeighted can return for the entries; "null" when none has a
\* positive weight
pickWeighted(entries) ==
    LET avail == SelectSeq(entries, LAMBDA e : e.weight > 0)
    IN  IF avail = <<>> THEN {"null"} ELSE {avail[i].key : i \in DOMAIN avail}

\* { ...inv0 }: a new object with the fields of objs[ref]
Spread(objs, ref) == Append(objs, objs[ref])

SectionCells(s) == (0..((s.h \div 6) - 1)) \X (0..((s.w \div 12) - 1))

\* the 2x2 block at (r, c) is inside the grid and free
BlockFree(s, grid, r, c) ==
    /\ r + 1 < s.h \div 6
    /\ c + 1 < s.w \div 12
    /\ {<<r, c>>, <<r, c + 1>>, <<r + 1, c>>, <<r + 1, c + 1>>} \cap grid = {}

\* the options of one cell of solveTileableRandom, the fallback included
CellOptions(rs, r, c) ==
    LET s == SECTIONS[rs.si]
        inv == rs.objs[rs.inv]
        want1212 == inv["12x12"] > 0 /\ BlockFree(s, rs.grid, r, c)
        want6 == inv["6x12"] > 0
        extraBias == IF rs.target1212 > 0 THEN 3 ELSE 1
        options ==
            (IF want1212
             THEN <<[key |-> "12x12", weight |-> inv["12x12"] * bias1212 * extraBias]>>
             ELSE <<>>)
            \o (IF want6 THEN <<[key |-> "6x12", weight |-> inv["6x12"] * bias6x12]>>
                ELSE <<>>)
    IN  IF options # <<>> THEN options
        ELSE (IF BlockFree(s, rs.grid, r, c) /\ inv["12x12"] > 0
              THEN <<[key |-> "12x12", weight |-> 1]>> ELSE <<>>)
             \o (IF inv["6x12"] > 0 THEN <<[key |-> "6x12", weight |-> 1]>> ELSE <<>>)

\* the body of the cell loop for the cell (r, c) when pickWeighted gave choice
VisitCell(rs, r, c, choice) ==
    LET s == SECTIONS[rs.si]
        rest == [rs EXCEPT !.cells = @ \ {<<r, c>>}]
    IN  IF <<r, c>> \in rs.grid THEN rest
        ELSE IF choice = "12x12"
        THEN [rest EXCEPT
                !.grid = @ \cup {<<r, c>>, <<r, c + 1>>, <<r + 1, c>>, <<r + 1, c + 1>>},
                !.placements = @ \cup {[name |-> "12x12", x |-> s.x + c * 12,
                                        y |-> s.y + r * 6, w |-> 24, h |-> 12]},
                !.objs[rs.inv]["12x12"] = @ - 1,
                !.target1212 = IF @ > 0 THEN @ - 1 ELSE @]
        ELSE IF choice = "6x12"
        THEN [rest EXCEPT
                !.grid = @ \cup {<<r, c>>},
                !.placements = @ \cup {[name |-> "6x12", x |-> s.x + c * 12,
                                        y |-> s.y + r * 6, w |-> 12, h |-> 6]},
                !.objs[rs.inv]["6x12"] = @ - 1]
        ELSE rest

donors == <<"16x16", "8x16", "16x12", "16x11", "8x8">>

\* donors.find without the test of the count
AnyDonor(inv) == {1}

\* donors.find(k => inv[k] > 0), as the set of the index found
FirstDonor(inv) ==
    {i \in DOMAIN donors : inv[donors[i]] > 0 /\ \A j \in 1..(i - 1) : inv[donors[j]] <= 0}

RandomInit ==
    /\ WorkerAbsent
    /\ call = Absent
    /\ planner = Absent
    /\ random \in {[pc |-> "start", objs |-> <<i>>, inventory |-> 1, given |-> i,
                    inv |-> 0, target1212 |-> 0, si |-> 0, grid |-> {}, cells |-> {},
                    placements |-> {}, out |-> <<>>,
                    finv |-> 0, padRemain |-> 0, padY |-> 0, padPlacements |-> {},
                    padLeftFilled |-> FALSE,
                    borderRemain |-> 0, borderY |-> 0, borderPlacements |-> {},
                    insufficient |-> FALSE] : i \in Inventories}

\* solveTileableRandom up to the cell loop of the first section
StartTileable ==
    /\ random.pc = "start"
    /\ LET objs == Spread(random.objs, random.inventory)
           inv == objs[Len(objs)]
           globalCells == totalCellsNeeded(SECTIONS)
       IN  random' = [random EXCEPT
                        !.pc = "tile", !.objs = objs, !.inv = Len(objs),
                        !.target1212 = Min2(inv["12x12"],
                                            (globalCells * min1212SharePct) \div 400),
                        !.si = 1, !.grid = {}, !.cells = SectionCells(SECTIONS[1]),
                        !.placements = {}]
    /\ UNCHANGED <<workerVars, call, planner>>

\* one pass of the cell loop, on the cell the shuffle put next
TileCell ==
    /\ random.pc = "tile"
    /\ \E cell \in random.cells :
          \E choice \in pickWeighted(CellOptions(random, cell[1], cell[2])) :
              random' = VisitCell(random, cell[1], cell[2], choice)
    /\ UNCHANGED <<workerVars, call, planner>>

\* out.push for the section, and on to the next section or to the return
EndSection ==
    /\ random.pc = "tile"
    /\ random.cells = {}
    /\ LET out == Append(random.out, [section |-> SECTIONS[random.si],
                                      placements |-> random.placements])
       IN  IF random.si < Len(SECTIONS)
           THEN random' = [random EXCEPT
                             !.out = out, !.si = @ + 1, !.grid = {},
                             !.cells = SectionCells(SECTIONS[random.si + 1]),
                             !.placements = {}]
           ELSE random' = [random EXCEPT !.out = out, !.pc = "free"]
    /\ UNCHANGED <<workerVars, call, planner>>

\* solveFreehand up to the loop of fillPadLeftFull
StartFreehand ==
    /\ random.pc = "free"
    /\ LET objs == Spread(random.objs, random.inventory)
       IN  random' = [random EXCEPT
                        !.pc = "pad", !.objs = objs, !.finv = Len(objs),
                        !.padRemain = PAD_LEFT.h, !.padY = PAD_LEFT.y]
    /\ UNCHANGED <<workerVars, call, planner>>

\* one pass of the loop of fillPadLeftFull
PadLeftStep ==
    /\ random.pc = "pad"
    /\ random.padRemain > 0
    /\ LET remain == random.padRemain
           useH == IF remain >= 16 THEN 16 ELSE IF remain >= 8 THEN 8 ELSE remain
       IN  \E d \in FirstDonor(random.objs[random.finv]) :
              random' = [random EXCEPT
                           !.padPlacements = @ \cup {[from |-> donors[d], x |-> PAD_LEFT.x,
                                                      y |-> random.padY, w |-> 7, h |-> useH]},
                           !.objs[random.finv][donors[d]] = @ - 1,
                           !.padY = @ + useH,
                           !.padRemain = @ - useH]
    /\ UNCHANGED <<workerVars, call, planner>>

\* fillPadLeftFull returns, fillRightBorderRandom is entered
PadLeftReturn ==
    /\ random.pc = "pad"
    /\ random.padRemain <= 0 \/ FirstDonor(random.objs[random.finv]) = {}
    /\ random' = [random EXCEPT
                    !.pc = "border", !.padLeftFilled = (random.padRemain = 0),
                    !.borderRemain = RIGHT_BORDER.h, !.borderY = RIGHT_BORDER.y]
    /\ UNCHANGED <<workerVars, call, planner>>

\* the choice of one pass of the loop of fillRightBorderRandom, with the
\* 8x8 tried when pickWeighted gave nothing
BorderChoices(rs) ==
    LET inv == rs.objs[rs.finv]
        remain == rs.borderRemain
        w816 == IF inv["8x16"] > 0 /\ remain >= 16 THEN inv["8x16"] * 2 ELSE 0
        w88 == IF inv["8x8"] > 0 /\ remain >= 8 THEN inv["8x8"] * 1 ELSE 0
        picked == pickWeighted(<<[key |-> "8x16", weight |-> w816],
                                 [key |-> "8x8", weight |-> w88]>>)
    IN  {IF choice = "null" /\ remain >= 8 /\ inv["8x8"] > 0 THEN "8x8" ELSE choice :
            choice \in picked}

\* one pass of the loop of fillRightBorderRandom that places a tile
BorderStep ==
    /\ random.pc = "border"
    /\ random.borderRemain >= 8
    /\ \E choice \in BorderChoices(random) \ {"null"} :
          LET hh == IF choice = "8x16" THEN 16 ELSE 8
          IN  random' = [random EXCEPT
                           !.borderPlacements = @ \cup {[name |-> choice, x |-> RIGHT_BORDER.x,
                                                         y |-> random.borderY, w |-> 8, h |-> hh]},
                           !.objs[random.finv][choice] = @ - 1,
                           !.borderY = @ + hh,
                           !.borderRemain = @ - hh]
    /\ UNCHANGED <<workerVars, call, planner>>

\* the loop of fillRightBorderRandom ends; solveFreehand returns
BorderReturn ==
    /\ random.pc = "border"
    /\ random.borderRemain < 8 \/ "null" \in BorderChoices(random)
    /\ random' = [random EXCEPT !.pc = "gate"]
    /\ UNCHANGED <<workerVars, call, planner>>

\* the feasibility gate of the component
Gate ==
    /\ random.pc = "gate"
    /\ LET inventory == random.objs[random.inventory]
           needCells == Max2(0, totalCellsNeeded(SECTIONS) - cellsSupply(inventory))
           needPadArea == Max2(0, padLeftAreaNeeded - oddAreaSupply(inventory))
           insufficientSupply == needCells > 0 \/ needPadArea > 0
       IN  random' = [random EXCEPT
                        !.pc = "done",
                        !.insufficient = insufficientSupply \/ ~random.padLeftFilled]
    /\ UNCHANGED <<workerVars, call, planner>>

RandomNext ==
    \/ StartTileable
    \/ TileCell
    \/ EndSection
    \/ StartFreehand
    \/ PadLeftStep
    \/ PadLeftReturn
    \/ BorderStep
    \/ BorderReturn
    \/ Gate

RandomSpec == RandomInit /\ [][RandomNext]_vars

(***************************************************************************)
(* Auto-solve of the random solver.  Here `random` holds the component's   *)
(* state between events: an event is its handler, the render that follows  *)
(* and the auto-solve effect whenever one of its dependencies changed.     *)
(* The gate of a render is a function of the inventory alone, Pad-Left     *)
(* being filled without a random choice.  `rerolls` counts the re-rolls    *)
(* since auto-solve was switched on, `edits` the inventory edits.          *)
(***************************************************************************)
MAX_ATTEMPTS == 3
MaxEdits == 2

\* left.done of fillPadLeftFull(inv) entered with `remain` to fill
RECURSIVE padLeftDone(_, _)
padLeftDone(inv, remain) ==
    IF remain <= 0 \/ FirstDonor(inv) = {} THEN remain = 0
    ELSE LET useH == IF remain >= 16 THEN 16 ELSE IF remain >= 8 THEN 8 ELSE remain
             d == CHOOSE i \in FirstDonor(inv) : TRUE
         IN  padLeftDone([inv EXCEPT ![donors[d]] = @ - 1], remain - useH)

\* `insufficient` of the render with this inventory
insufficientOf(inventory) ==
    LET needCells == Max2(0, totalCellsNeeded(SECTIONS) - cellsSupply(inventory))
        needPadArea == Max2(0, padLeftAreaNeeded - oddAreaSupply(inventory))
    IN  needCells > 0 \/ needPadArea > 0 \/ ~padLeftDone(inventory, PAD_LEFT.h)

\* the effect with the cap tested after the re-roll
autoSolveEffectLateCap(s) ==
    LET c == [s EXCEPT !.timer = FALSE]
    IN  IF ~c.autoSolve THEN c
        ELSE IF ~insufficientOf(c.inventory) THEN [c EXCEPT !.autoSolve = FALSE, !.attempts = 0]
        ELSE IF c.attempts <= MAX_ATTEMPTS THEN [c EXCEPT !.timer = TRUE]
        ELSE [c EXCEPT !.autoSolve = FALSE]

\* one run of the auto-solve effect, the cleanup of the run before it first
autoSolveEffect(s) ==
    LET c == [s EXCEPT !.timer = FALSE]
    IN  IF ~c.autoSolve THEN c
        ELSE IF ~insufficientOf(c.inventory) THEN [c EXCEPT !.autoSolve = FALSE, !.attempts = 0]
        ELSE IF c.attempts < MAX_ATTEMPTS THEN [c EXCEPT !.timer = TRUE]
        ELSE [c EXCEPT !.autoSolve = FALSE]

\* the dependencies of the effect
EffectDeps(s) == <<s.autoSolve, insufficientOf(s.inventory), s.attempts>>

\* the renders and effect runs after an event, until no dependency changes
RECURSIVE Settle(_, _)
Settle(deps, s) ==
    IF EffectDeps(s) = deps THEN s ELSE Settle(EffectDeps(s), autoSolveEffect(s))

\* the inventory the component starts with: one cell short of the tileable
\* cells, as the source's is seven short, and odd tiles in plenty
INITIAL_INVENTORY ==
    [k \in {"6x12", "12x12"} \cup OddKeys |->
        IF k = "6x12" THEN 3 ELSE 1]

AutoInit ==
    /\ WorkerAbsent
    /\ call = Absent
    /\ planner = Absent
    /\ random = [autoSolve |-> FALSE, attempts |-> 0, inventory |-> INITIAL_INVENTORY,
                 timer |-> FALSE, rerolls |-> 0, edits |-> 0]

\* the Auto-solve button
ClickAutoSolve ==
    /\ ~(random.autoSolve /\ random.attempts > 0)
    /\ random' = Settle(EffectDeps(random),
                        [random EXCEPT !.attempts = 0, !.autoSolve = TRUE, !.rerolls = 0])
    /\ UNCHANGED <<workerVars, call, planner>>

\* the callback of setTimeout: one re-roll
TimerFires ==
    /\ random.timer
    /\ random' = Settle(EffectDeps(random),
                        [random EXCEPT !.attempts = @ + 1, !.rerolls = @ + 1,
                                       !.timer = FALSE])
    /\ UNCHANGED <<workerVars, call, planner>>

\* an inventory input is given a new count
EditInventory ==
    /\ random.edits < MaxEdits
    /\ \E i \in Inventories :
          /\ Cardinality({k \in DOMAIN i : i[k] # random.inventory[k]}) = 1
          /\ random' = Settle(EffectDeps(random),
                              [random EXCEPT !.inventory = i, !.edits = @ + 1])
    /\ UNCHANGED <<workerVars, call, planner>>

AutoNext ==
    \/ ClickAutoSolve
    \/ TimerFires
    \/ EditInventory

AutoSpec == AutoInit /\ [][AutoNext]_vars /\ WF_vars(TimerFires)

(***************************************************************************)
(* Properties.                                                             *)
(***************************************************************************)
Terminal(m) == m.type \in {"infeasible", "result", "error"}

Done == pc = "done"

\* the handler has returned after posting a result
Returned == Done /\ msgs # <<>> /\ Last(msgs).type = "result"

PreflightOk == preflight(payload.W, payload.H, payload.holes, tiles).ok

CellsOf(layout) == UNION {Range(layout[k].cells) : k \in DOMAIN layout}

OnCell(layout, c) == {k \in DOMAIN layout : c \in Range(layout[k].cells)}

IsPartitionOfFreeSet(layout) ==
    /\ \A c \in boardSet : Cardinality(OnCell(layout, c)) = 1
    /\ \A j, k \in DOMAIN layout :
         j # k => Range(layout[j].cells) \cap Range(layout[k].cells) = {}

\* C1: every layout posted in a result message partitions the free set: each
\* free cell lies in exactly one placement and no two placements share a cell
C1_LayoutPartitionsFreeSet ==
    \A i \in DOMAIN msgs :
        msgs[i].type = "result" => IsPartitionOfFreeSet(msgs[i].layout)

C1_Witness ==
    /\ Returned
    /\ ~IsNoBalance
    /\ Len(Last(msgs).layout) >= 2
    /\ Len(solutions) >= 2

InFreeSet(c) ==
    /\ c[1] >= 0 /\ c[1] < payload.W
    /\ c[2] >= 0 /\ c[2] < payload.H
    /\ c \notin payload.holes

\* C2: every cell of every enumerated placement and of every returned layout
\* is inside the W x H board and is not a hole
C2_CellsInFreeSet ==
    /\ \A pid \in DOMAIN placements :
         \A c \in Range(placements[pid].cells) : InFreeSet(c)
    /\ \A i \in DOMAIN msgs :
         msgs[i].type = "result" => \A c \in CellsOf(msgs[i].layout) : InFreeSet(c)

C2_Witness ==
    /\ Returned
    /\ payload.holes # {}
    /\ Len(placements) >= 2
    /\ payload.W >= 2 /\ payload.H >= 2

TypeCount(layout, ti) == Cardinality({k \in DOMAIN layout : layout[k].ti = ti})

\* C3: a returned layout holds at most count placements of a tile type with
\* a finite count, and usedCounts never exceeds count during either search
C3_CountsRespected ==
    /\ \A ti \in DOMAIN usedCounts :
         HasCount(tiles[ti]) => usedCounts[ti] <= tiles[ti].count
    /\ \A i \in DOMAIN msgs :
         msgs[i].type = "result" =>
            \A ti \in DOMAIN tiles :
               HasCount(tiles[ti]) => TypeCount(msgs[i].layout, ti) <= tiles[ti].count

C3_Witness ==
    /\ Returned
    /\ \E ti \in DOMAIN tiles :
         /\ HasCount(tiles[ti])
         /\ tiles[ti].count >= 1
         /\ TypeCount(Last(msgs).layout, ti) = tiles[ti].count
         /\ Cardinality({pid \in DOMAIN placements : placements[pid].ti = ti})
               > tiles[ti].count

\* the orientations the flags of the external interface permit
PermittedOrientations(t) == orientations(t.base, t.allowRotate, t.allowReflect)

\* C4: every placement of a returned layout is a translate of an orientation
\* that the allowRotate and allowReflect flags of its tile type permit
C4_OnlyPermittedOrientations ==
    \A i \in DOMAIN msgs :
        msgs[i].type = "result" =>
           \A k \in DOMAIN msgs[i].layout :
              normShape(msgs[i].layout[k].cells)
                 \in Range(PermittedOrientations(tiles[msgs[i].layout[k].ti]))

\* C5: when a pre-flight check fails the handler posts infeasible with the
\* pre-flight reasons and enters no search: no placement is enumerated, no
\* node is visited, no frame is pushed and nothing else is posted
C5_PreflightFailureSkipsSearch ==
    ~PreflightOk =>
        /\ pc \in {"idle", "done"}
        /\ placements = <<>> /\ nodes = 0 /\ stack = <<>>
        /\ Done => msgs = <<InfeasibleMsg(preflight(payload.W, payload.H,
                                                    payload.holes, tiles).reasons)>>

C5_Witness == Done /\ ~PreflightOk /\ Len(Last(msgs).reasons) = 1

\* C6: a solve posts exactly one terminal message, and it is the last message:
\* none is posted before the handler returns, and nothing follows it
C6_ExactlyOneTerminal ==
    IF Done
    THEN /\ msgs # <<>>
         /\ Terminal(Last(msgs))
         /\ \A i \in 1..(Len(msgs) - 1) : ~Terminal(msgs[i])
    ELSE \A i \in DOMAIN msgs : ~Terminal(msgs[i])

C6_Witness == Done /\ nodes > 0 /\ Last(msgs).type = "infeasible"

\* C7: no error message is posted for the well-formed problems of the model;
\* the capacity check of enumerateTilings never throws after pre-flight passed
C7_NeverError == \A i \in DOMAIN msgs : msgs[i].type # "error"

C7_Witness == Returned /\ ~IsNoBalance /\ AllFinite(tiles) /\ totalCells > 0

\* the placements the flags of the external interface permit
PermittedPlacements ==
    Concat([ti \in DOMAIN tiles |->
        LET os == PermittedOrientations(tiles[ti])
        IN  Concat([j \in DOMAIN os |->
                PlacementsOfOrientation(payload.W, payload.H, boardSet, ti, os[j])])])

\* whether placements of plc, disjoint from cov and within the counts left
\* after `used`, cover the rest of the free set exactly
RECURSIVE CanCover(_, _, _)
CanCover(plc, cov, used) ==
    IF boardSet \subseteq cov THEN TRUE
    ELSE LET c == freeCells[CHOOSE i \in DOMAIN freeCells :
                      /\ freeCells[i] \notin cov
                      /\ \A j \in 1..(i - 1) : freeCells[j] \in cov]
         IN  \E pid \in DOMAIN plc :
                /\ c \in Range(plc[pid].cells)
                /\ Range(plc[pid].cells) \cap cov = {}
                /\ ~AtLimit(tiles[plc[pid].ti], used[plc[pid].ti])
                /\ CanCover(plc, cov \cup Range(plc[pid].cells),
                            [used EXCEPT ![plc[pid].ti] = @ + 1])

ExactCoverExists(plc) == CanCover(plc, {}, [ti \in DOMAIN tiles |-> 0])

\* C8: after pre-flight passed, the terminal message is a result if and only
\* if the free set has an exact cover by placements of the orientations the
\* flags permit within the per-type counts, whatever the shuffles
C8_ResultIffCoverExists ==
    (Done /\ PreflightOk) =>
        (Last(msgs).type = "result" <=> ExactCoverExists(PermittedPlacements))

\* C9: when pre-flight passed and the search ended without a layout, the
\* terminal message is infeasible with the generic reason as its only reason
C9_SingleGenericReason ==
    (Done /\ PreflightOk /\ Last(msgs).type = "infeasible") =>
        Last(msgs).reasons = <<NoLayoutReason>>

C9_Witness ==
    /\ Done /\ PreflightOk /\ Last(msgs).type = "infeasible"
    /\ nodes > 1

\* the transforms canonicalKey retains: those mapping the free set onto itself
RetainedTransforms ==
    {f \in Range(boardSymTransforms(payload.W, payload.H)) :
        KeepsBoard(f, payload.W, payload.H, boardSet)}

PlacementSet(layout) ==
    {[ti |-> layout[k].ti, cells |-> Range(layout[k].cells)] : k \in DOMAIN layout}

ImageOf(f, layout) ==
    {[ti |-> layout[k].ti,
      cells |-> {ApplyT(f, payload.W, payload.H, c) : c \in Range(layout[k].cells)}] :
        k \in DOMAIN layout}

\* C10: with uniqueByBoardSymmetry, no retained transform maps one retained
\* layout onto another retained layout, on square and non-square boards
C10_NoSymmetricDuplicates ==
    payload.uniqueByBoardSymmetry =>
        \A i, j \in DOMAIN solutions :
            i # j => \A f \in RetainedTransforms :
                        ImageOf(f, solutions[i]) # PlacementSet(solutions[j])

\* the placements of every rotation and reflection of every tile type
AnyOrientationPlacements ==
    Concat([ti \in DOMAIN tiles |->
        LET os == orientations(tiles[ti].base, TRUE, TRUE)
        IN  Concat([j \in DOMAIN os |->
                PlacementsOfOrientation(payload.W, payload.H, boardSet, ti, os[j])])])

\* C11: the pre-flight tests are necessary conditions: when preflight rejected
\* the command, the free set has no exact cover within the counts, whatever
\* the orientations; the empty layout covers a board without free cells
C11_PreflightNecessary ==
    (Done /\ ~PreflightOk) => ~ExactCoverExists(AnyOrientationPlacements)

\* the kinds of the reasons of preflight for the command, in order
ReasonKinds ==
    LET rs == preflight(payload.W, payload.H, payload.holes, tiles).reasons
    IN  [i \in DOMAIN rs |-> rs[i][1]]

FailingTests ==
    (IF NoTilesTest(tiles) THEN {"noTiles"} ELSE {})
  \cup (IF AreaTest(totalCells, tiles) THEN {"area"} ELSE {})
  \cup (IF ParityTest(totalCells, tiles) THEN {"parity"} ELSE {})
  \cup (IF GcdTest(totalCells, tiles) THEN {"gcd"} ELSE {})
  \cup (IF CheckerboardTest(freeCells, tiles) THEN {"checkerboard"} ELSE {})

\* the command has just been received, or the handler has returned without
\* starting a search
AtPreflight == pc = "idle" \/ (Done /\ nodes = 0 /\ placements = <<>>)

\* C12: for the command received, preflight returns ok = false exactly when
\* its reasons are not empty; each of the five tests that fails contributes
\* one reason and no other reason is listed; the infeasible message posted on
\* a rejection carries that list
C12_OneReasonPerFailingTest ==
    AtPreflight =>
        LET pf == preflight(payload.W, payload.H, payload.holes, tiles)
        IN  /\ ~pf.ok <=> pf.reasons # <<>>
            /\ Range(ReasonKinds) = FailingTests
            /\ Len(ReasonKinds) = Cardinality(FailingTests)
            /\ (Done /\ ~pf.ok) => Last(msgs) = InfeasibleMsg(pf.reasons)

C12_Witness ==
    /\ Done
    /\ Last(msgs).type = "infeasible"
    /\ Len(Last(msgs).reasons) >= 3
    /\ Cardinality(Range(ReasonKinds)) = Len(Last(msgs).reasons)

\* a tile type whose count is null or positive, as the rules word it
InStock(t) == "count" \notin DOMAIN t \/ t.count > 0

\* the imbalance of the free cells coloured by (x + y) mod 2
BoardImbalance ==
    Cardinality({c \in boardSet : (c[1] + c[2]) % 2 = 1})
  - Cardinality({c \in boardSet : (c[1] + c[2]) % 2 = 0})

\* a shape with as many black cells as white ones
ParityNeutral(shape) ==
    Cardinality({c \in Range(shape) : (c[1] + c[2]) % 2 = 1})
  = Cardinality({c \in Range(shape) : (c[1] + c[2]) % 2 = 0})

\* C13: the checkerboard reason is produced whenever every tile type in stock
\* is parity-neutral and the free cells are imbalanced; the tile types with
\* count 0 have no say
C13_CheckerboardRule ==
    (/\ AtPreflight
     /\ \A i \in DOMAIN tiles : InStock(tiles[i]) => ParityNeutral(tiles[i].base)
     /\ BoardImbalance # 0)
        => "checkerboard" \in Range(ReasonKinds)

\* C14: for the command received, the odd-parity reason is produced if and
\* only if the number of free cells is odd and every tile type in stock has an
\* even number of cells
C14_OddParityRule ==
    AtPreflight =>
        ("parity" \in Range(ReasonKinds)
            <=> (/\ Cardinality(boardSet) % 2 = 1
                 /\ \A i \in DOMAIN tiles :
                      InStock(tiles[i]) => Len(tiles[i].base) % 2 = 0))

C14_Witness ==
    /\ Done
    /\ Last(msgs).type = "infeasible"
    /\ <<"parity">> \in Range(Last(msgs).reasons)
    /\ \E i \in DOMAIN tiles : ~InStock(tiles[i]) /\ Len(tiles[i].base) % 2 = 1

\* the greatest number dividing every member of the non-empty set S
GreatestCommonDivisor(S) ==
    LET m == CHOOSE n \in S : \A k \in S : k <= n
    IN  CHOOSE d \in 1..m :
            /\ \A n \in S : n % d = 0
            /\ \A e \in 1..m : (\A n \in S : n % e = 0) => e <= d

StockSizes == {Len(tiles[i].base) : i \in {j \in DOMAIN tiles : InStock(tiles[j])}}

\* C15: for the command received, the gcd reason is produced if and only if
\* some tile type is in stock and the number of free cells is not a multiple
\* of the gcd of the sizes of the tile types in stock
C15_GcdRule ==
    AtPreflight =>
        ("gcd" \in Range(ReasonKinds)
            <=> (/\ StockSizes # {}
                 /\ Cardinality(boardSet) % GreatestCommonDivisor(StockSizes) # 0))

C15_Witness ==
    /\ Done
    /\ Last(msgs).type = "infeasible"
    /\ \E r \in Range(Last(msgs).reasons) : r[1] = "gcd" /\ r[3] = 2
    /\ \E i \in DOMAIN tiles : ~InStock(tiles[i]) /\ Len(tiles[i].base) = 1

\* the cap as the interface words it: maxSolutionsToEvaluate if present,
\* otherwise cap, otherwise 1000
EffectiveCap ==
    IF "maxSolutionsToEvaluate" \in DOMAIN payload.balance
    THEN payload.balance.maxSolutionsToEvaluate
    ELSE IF "cap" \in DOMAIN payload THEN payload.cap
    ELSE 1000

KeyOf(layout) ==
    canonicalKey(layout, payload.W, payload.H, payload.uniqueByBoardSymmetry, boardSet)

\* C16: in balanced mode the retained layouts never outnumber the effective
\* cap; they are counted after deduplication (their keys differ pairwise and
\* are the seen set); found is at most the cap; and once the cap is reached no
\* placement is made: no node is counted, no cell covered, no tile used
C16_CapBoundsRetained ==
    /\ [](~IsNoBalance =>
            /\ Len(solutions) <= EffectiveCap
            /\ Cardinality(seen) = Len(solutions)
            /\ \A i, j \in DOMAIN solutions :
                   i # j => KeyOf(solutions[i]) # KeyOf(solutions[j])
            /\ \A i \in DOMAIN msgs :
                   msgs[i].type = "result" =>
                      msgs[i].found = Len(solutions) /\ msgs[i].found <= EffectiveCap)
    /\ [][(pc = "rec" /\ Len(solutions) >= EffectiveCap) =>
            /\ nodes' = nodes
            /\ covered' \subseteq covered
            /\ \A ti \in DOMAIN usedCounts : usedCounts'[ti] <= usedCounts[ti]
            /\ solutions' = solutions]_vars

\* the cap was reached with two layouts retained under symmetry
\* deduplication, and the search returned early from below a placement
C16_Witness ==
    /\ Returned
    /\ ~IsNoBalance
    /\ payload.uniqueByBoardSymmetry
    /\ EffectiveCap >= 2
    /\ Last(msgs).found = EffectiveCap
    /\ Len(solutions) = EffectiveCap

ScoreOf(layout) ==
    balanceScore(payload.W, payload.H, tiles, layout, payload.balance)

\* C17: the layout of a balanced result is a retained layout, score is its
\* balance score, no retained layout scores strictly less, and every layout
\* retained before it scores strictly more
C17_BestRetainedFirstOnTie ==
    (Returned /\ ~IsNoBalance) =>
        LET scores == [k \in DOMAIN solutions |-> ScoreOf(solutions[k])]
        IN  \E k \in DOMAIN solutions :
                /\ Last(msgs).layout = solutions[k]
                /\ Last(msgs).score = scores[k]
                /\ \A j \in DOMAIN solutions : ~RatLess(scores[j], scores[k])
                /\ \A j \in 1..(k - 1) : RatLess(scores[k], scores[j])

\* the best layout was not the first found, and another scores the same
C17_Witness ==
    /\ Returned
    /\ ~IsNoBalance
    /\ Last(msgs).layout # solutions[1]
    /\ \E j \in DOMAIN solutions :
          /\ solutions[j] # Last(msgs).layout
          /\ ScoreOf(solutions[j]) = Last(msgs).score

\* the first free cell outside cov
FirstUncovered(cov) ==
    freeCells[CHOOSE i \in DOMAIN freeCells :
                 /\ freeCells[i] \notin cov
                 /\ \A j \in 1..(i - 1) : freeCells[j] \in cov]

\* the exact covers of the free set that extend acc, a layout covering cov
\* with used[ti] placements of type ti, by placements of the table in use
RECURSIVE CoversFrom(_, _, _)
CoversFrom(cov, used, acc) ==
    IF boardSet \subseteq cov THEN {acc}
    ELSE UNION {CoversFrom(cov \cup Range(placements[pid].cells),
                           [used EXCEPT ![placements[pid].ti] = @ + 1],
                           Append(acc, placements[pid])) :
                  pid \in {q \in DOMAIN placements :
                             /\ FirstUncovered(cov) \in Range(placements[q].cells)
                             /\ Range(placements[q].cells) \cap cov = {}
                             /\ ("count" \in DOMAIN tiles[placements[q].ti]
                                   => used[placements[q].ti] < tiles[placements[q].ti].count)}}

AllExactCovers == CoversFrom({}, [ti \in DOMAIN tiles |-> 0], <<>>)

AllCoverKeys == {KeyOf(L) : L \in AllExactCovers}

\* enumerateTilings has returned with fewer layouts than the cap
EnumeratedBelowCap ==
    /\ Done
    /\ ~IsNoBalance
    /\ PreflightOk
    /\ Last(msgs).type # "error"
    /\ Len(solutions) < EffectiveCap

\* C18: when the cap was not reached, the key of every exact cover of the free
\* set within the counts is in the seen set when the enumeration returns, and
\* found is the number of distinct keys over all exact covers, whatever the
\* shuffles drew
C18_ExhaustiveBelowCap ==
    EnumeratedBelowCap =>
        LET keys == AllCoverKeys
        IN  /\ keys = seen
            /\ Len(solutions) = Cardinality(keys)
            /\ IF keys = {} THEN Last(msgs).type = "infeasible"
               ELSE /\ Last(msgs).type = "result"
                    /\ Last(msgs).found = Cardinality(keys)

\* the 2 x 2 board with unbounded rotatable dominoes under symmetry
\* deduplication: two exact covers, one canonical key, found = 1
C18_Witness ==
    /\ EnumeratedBelowCap
    /\ payload.W = 2 /\ payload.H = 2 /\ payload.holes = {}
    /\ payload.uniqueByBoardSymmetry
    /\ Len(tiles) = 1 /\ ~HasCount(tiles[1]) /\ tiles[1].allowRotate
    /\ Cardinality(AllExactCovers) = 2
    /\ Last(msgs).found = 1

IsProgress(m) == m.type = "progress"

\* the positions in msgs of the progress messages posted for a solve
ProgressOf(solve) ==
    {i \in DOMAIN msgs : IsProgress(msgs[i]) /\ msgs[i].solve = solve}

\* C19: across one solve, in either mode, the nodes values of the progress
\* messages are strictly increasing in the order of posting
C19_ProgressNodesIncrease ==
    \A i, j \in DOMAIN msgs :
        (/\ i < j
         /\ IsProgress(msgs[i]) /\ IsProgress(msgs[j])
         /\ msgs[i].solve = msgs[j].solve)
            => msgs[i].nodes < msgs[j].nodes

\* a first-only solve (its result has no score) and a balanced solve (its
\* result has one) have each posted two progress messages
C19_Witness ==
    /\ \E k \in DOMAIN msgs :
          /\ msgs[k].type = "result" /\ "score" \notin DOMAIN msgs[k]
          /\ Cardinality(ProgressOf(msgs[k].solve)) >= 2
    /\ \E k \in DOMAIN msgs :
          /\ msgs[k].type = "result" /\ "score" \in DOMAIN msgs[k]
          /\ Cardinality(ProgressOf(msgs[k].solve)) >= 2

\* C20: nothing is posted for a solve after its terminal message, so every
\* progress message precedes it; the messages of two solves do not interleave:
\* they come in the order of the commands; and when no handler runs, every
\* solve that posted a message has posted its terminal message
C20_ProgressBeforeTerminalNoInterleaving ==
    /\ \A i, j \in DOMAIN msgs :
          i < j => /\ msgs[i].solve <= msgs[j].solve
                   /\ msgs[i].solve = msgs[j].solve => ~Terminal(msgs[i])
    /\ pc = "wait" =>
          \A i \in DOMAIN msgs :
              \E j \in DOMAIN msgs :
                  msgs[j].solve = msgs[i].solve /\ Terminal(msgs[j])

\* two solves have each posted progress and then their terminal message
C20_Witness ==
    \E i, j, k, l \in DOMAIN msgs :
        /\ i < j /\ j < k /\ k < l
        /\ IsProgress(msgs[i]) /\ Terminal(msgs[j]) /\ msgs[i].solve = msgs[j].solve
        /\ IsProgress(msgs[k]) /\ Terminal(msgs[l]) /\ msgs[k].solve = msgs[l].solve
        /\ msgs[j].solve # msgs[k].solve

\* C21: in both modes, while a search runs, every multiple of 5000 that the
\* node counter has reached has its progress message, whatever the number of
\* layouts found at that moment
C21_ProgressAtEveryMultiple ==
    pc \in {"dfs", "rec"} =>
        \A k \in 1..(nodes \div ProgressEvery) :
            \E i \in ProgressOf(payload.solve) : msgs[i].nodes = k * ProgressEvery

\* the translation vectors tried on a shape
Shifts == (0 - MaxShift)..MaxShift

\* C22: normShape applied to its own output returns it unchanged; the shape
\* translated by any vector normalizes to the same output; the output's least
\* x and least y are 0 and its cells are in (y, x) order
C22_NormShapeLaws ==
    call.fn = "normShape" =>
        LET s == call.args.cells
            n == call.val
        IN  /\ normShape(n) = n
            /\ \A dx, dy \in Shifts : normShape(Translate(s, dx, dy)) = n
            /\ \A i \in DOMAIN n : n[i][1] >= 0 /\ n[i][2] >= 0
            /\ \E i \in DOMAIN n : n[i][1] = 0
            /\ \E i \in DOMAIN n : n[i][2] = 0
            /\ \A i \in 1..(Len(n) - 1) :
                  \/ n[i][2] < n[i + 1][2]
                  \/ n[i][2] = n[i + 1][2] /\ n[i][1] < n[i + 1][1]

\* normShape has returned for a shape of several cells that was neither at the
\* origin nor in order
C22_Witness ==
    /\ call.fn = "normShape"
    /\ Len(call.args.cells) = MaxShapeCells
    /\ \E i \in DOMAIN call.args.cells : call.args.cells[i][1] < 0
    /\ \A dx, dy \in Shifts : Translate(call.args.cells, dx, dy) # call.val

\* the ways of listing n cells in another order
Reorderings(n) == {p \in [1..n -> 1..n] : \A i, j \in 1..n : i # j => p[i] # p[j]}

\* a set of cells turned by 90 degrees k times, mirrored, moved to the origin
RECURSIVE Turned(_, _)
Turned(S, k) == IF k = 0 THEN S ELSE {<<0 - c[2], c[1]>> : c \in Turned(S, k - 1)}

Mirrored(S) == {<<0 - c[1], c[2]>> : c \in S}

AtOrigin(S) ==
    LET minx == CHOOSE x \in {c[1] : c \in S} : \A c \in S : x <= c[1]
        miny == CHOOSE y \in {c[2] : c \in S} : \A c \in S : y <= c[2]
    IN  {<<c[1] - minx, c[2] - miny>> : c \in S}

\* the normalized images of a shape under the rotations and the flip allowed
NormalizedImages(base, rot, refl) ==
    LET turns == {Turned(Range(base), k) : k \in (IF rot THEN 0..3 ELSE {0})}
        all == turns \cup (IF refl THEN {Mirrored(T) : T \in turns} ELSE {})
    IN  {AtOrigin(T) : T \in all}

\* C23: orientations returns the same list when the base is translated by any
\* vector or its cells are listed in another order; no two shapes of the list
\* are equal; and the shapes are exactly the normalized images of the base
\* under the rotations (if rot) and the mirror flip (if refl)
C23_OrientationsLaws ==
    call.fn = "orientations" =>
        LET b == call.args.base
            rot == call.args.rot
            refl == call.args.refl
            o == call.val
        IN  /\ \A dx, dy \in Shifts : orientations(Translate(b, dx, dy), rot, refl) = o
            /\ \A p \in Reorderings(Len(b)) :
                  orientations([i \in DOMAIN b |-> b[p[i]]], rot, refl) = o
            /\ \A i, j \in DOMAIN o : i # j => Range(o[i]) # Range(o[j])
            /\ {Range(o[i]) : i \in DOMAIN o} = NormalizedImages(b, rot, refl)
            /\ \A i \in DOMAIN o :
                  /\ Len(o[i]) = Len(b)
                  /\ \A k \in 1..(Len(o[i]) - 1) :
                        \/ o[i][k][2] < o[i][k + 1][2]
                        \/ o[i][k][2] = o[i][k + 1][2] /\ o[i][k][1] < o[i][k + 1][1]

\* orientations has returned, with rotations and the flip allowed, for a shape
\* whose eight candidates normalize to four distinct shapes, none of them the
\* base as it was given
C23_Witness ==
    /\ call.fn = "orientations"
    /\ call.args.rot /\ call.args.refl
    /\ Len(call.args.base) = MaxShapeCells
    /\ Len(call.val) = 4
    /\ \A i \in DOMAIN call.val : call.val[i] # call.args.base

\* C25: when desiredMix is present (and the proportions exist: the layout has
\* a tile and the mix a positive sum), mixErr is the squared distance between
\* the layout's proportions and the target proportions, summed over every name
\* of the layout or of desiredMix; it is zero only when the two coincide
C25_MixErrIsSquaredDistance ==
    (call.fn = "mixError" /\ "desiredMix" \in DOMAIN call.args.cfg) =>
        LET ts == call.args.ts
            layout == call.args.layout
            mix == call.args.cfg.desiredMix
            names == {ts[layout[i].ti].name : i \in DOMAIN layout} \cup DOMAIN mix
            total == Len(layout)
            sum == SumOver(mix, DOMAIN mix)
            count(nm) == Cardinality({i \in DOMAIN layout : ts[layout[i].ti].name = nm})
            weight(nm) == IF nm \in DOMAIN mix THEN mix[nm] ELSE 0
            \* (actual - target) * total * sum, per name
            diff == [nm \in names |-> count(nm) * sum - weight(nm) * total]
            squares == [nm \in names |-> diff[nm] * diff[nm]]
        IN  (total > 0 /\ sum > 0) =>
                /\ call.val[1] * (total * sum) * (total * sum)
                      = SumOver(squares, names) * call.val[2]
                /\ call.val[1] = 0 <=> \A nm \in names : diff[nm] = 0

\* the search state a handler starts from: every local of a solve is created
\* by the call itself
NoSearchState ==
    /\ nodes = 0
    /\ placements = <<>>
    /\ usedCounts = <<>>
    /\ stack = <<>>
    /\ coveredCols = <<>>
    /\ usedRow = <<>>
    /\ solutionRows = <<>>
    /\ bannedRowsStack = <<>>
    /\ covered = {}
    /\ usedPlacements = <<>>
    /\ coveredCount = 0
    /\ seen = {}
    /\ solutions = <<>>

\* C24: whenever no handler runs, before the first solve and after the
\* terminal message of any solve, the worker holds the same state, so a solve
\* starts from what its payload and its draws give it and from nothing else;
\* and a running handler does not change the payload it received
C24_NoResidualState ==
    /\ [](pc = "wait" => NoSearchState)
    /\ [][pc # "wait" => payload' = payload]_vars

\* the same balanced command was solved twice, each solve posted progress and
\* ended with a result, and no handler runs
C24_Witness ==
    /\ pc = "wait"
    /\ inbox = <<>>
    /\ \E i, j \in DOMAIN msgs :
          /\ msgs[i].solve = 1 /\ msgs[j].solve = 2
          /\ msgs[i].type = "result" /\ "score" \in DOMAIN msgs[i]
          /\ msgs[j].type = "result" /\ "score" \in DOMAIN msgs[j]
          /\ ProgressOf(1) # {} /\ ProgressOf(2) # {}


(***************************************************************************)
(* The interactive planner.                                                *)
(***************************************************************************)
\* the unit cells the two rectangles have in common
SharedCells(a, b) ==
    {c \in (a.x..(a.x + a.w - 1)) \X (a.y..(a.y + a.h - 1)) : Covers(b, c[1], c[2])}

CountOfKey(ps, k) == Cardinality({i \in DOMAIN ps : ps[i].key = k})

\* C26: whenever no drag is in progress, no two placements of the plan
\* overlap and no placement meets the hole
C26_NoOverlapAtRest ==
    planner.drag = NoDrag =>
        LET ps == planner.placements
        IN  /\ \A i, j \in DOMAIN ps : i # j => SharedCells(ps[i], ps[j]) = {}
            /\ \A i \in DOMAIN ps : SharedCells(ps[i], ORIGINAL_HOLE) = {}

\* C27: every placement of the plan lies inside the patio rectangle
C27_PlacementsInsidePatio ==
    \A i \in DOMAIN planner.placements :
        LET p == planner.placements[i]
        IN  p.x >= 0 /\ p.y >= 0 /\ p.x + p.w <= PatioW /\ p.y + p.h <= PatioH

\* the step appends tiles to the plan, every one of them placed by autofill
AutofillAppends ==
    LET ps == planner.placements
        qs == planner'.placements
    IN  /\ Len(qs) > Len(ps)
        /\ SubSeq(qs, 1, Len(ps)) = ps
        /\ \A i \in (Len(ps) + 1)..Len(qs) : "auto" \in DOMAIN qs[i]

\* C28: the plan never holds more placements of a key than FIXED_INVENTORY
\* has of it, and one autofill adds, of each key, at most what remained of it
C28_InventoryRespected ==
    /\ [](\A k \in DOMAIN FIXED_INVENTORY :
             CountOfKey(planner.placements, k) <= FIXED_INVENTORY[k])
    /\ [][AutofillAppends =>
            \A k \in DOMAIN FIXED_INVENTORY :
                CountOfKey(planner'.placements, k) - CountOfKey(planner.placements, k)
                    <= FIXED_INVENTORY[k] - CountOfKey(planner.placements, k)]_vars

\* the whole inventory is in the plan, part of it placed by hand and part of
\* it by autofill
C28_Witness ==
    /\ \A k \in DOMAIN FIXED_INVENTORY :
          CountOfKey(planner.placements, k) = FIXED_INVENTORY[k]
    /\ \E i \in DOMAIN planner.placements : "auto" \in DOMAIN planner.placements[i]
    /\ \E i \in DOMAIN planner.placements : "auto" \notin DOMAIN planner.placements[i]


(***************************************************************************)
(* The random solver.                                                      *)
(***************************************************************************)
\* C29: no count of any inventory object the solvers work on is ever below
\* zero, and the inventory object handed to solveTileableRandom and to
\* solveFreehand keeps the counts it was given
C29_InventorySafe ==
    /\ \A i \in DOMAIN random.objs :
          \A k \in DOMAIN random.objs[i] : random.objs[i][k] >= 0
    /\ random.objs[random.inventory] = random.given

\* the render is over; the tileable solver used the last 6x12 of its copy,
\* Pad-Left took donors and the right border took the last 8x8 of the
\* freehand copy
C29_Witness ==
    /\ random.pc = "done"
    /\ random.given["6x12"] > 0
    /\ random.objs[random.inv]["6x12"] = 0
    /\ random.padPlacements # {}
    /\ random.borderPlacements # {}
    /\ random.given["8x8"] > 0
    /\ random.objs[random.finv]["8x8"] = 0

\* the cell (r, c) of the section lies under a whole tile of the placements
CellCovered(s, ps, r, c) ==
    \E p \in ps :
        /\ p.name \in {"6x12", "12x12"}
        /\ p.x <= s.x + c * 12 /\ s.x + c * 12 + 12 <= p.x + p.w
        /\ p.y <= s.y + r * 6 /\ s.y + r * 6 + 6 <= p.y + p.h

\* every inch of the height of Pad-Left lies under a strip
PadLeftCovered(ps) ==
    \A y \in PAD_LEFT.y..(PAD_LEFT.y + PAD_LEFT.h - 1) :
        \E p \in ps : p.y <= y /\ y < p.y + p.h /\ p.x = PAD_LEFT.x /\ p.w = PAD_LEFT.w

\* C30: a plan that is not refused covers every grid cell of every tileable
\* section with a whole tile and fills Pad-Left
C30_NotRefusedIsCovered ==
    (random.pc = "done" /\ ~random.insufficient) =>
        /\ \A i \in DOMAIN random.out :
              \A cell \in SectionCells(random.out[i].section) :
                  CellCovered(random.out[i].section, random.out[i].placements,
                              cell[1], cell[2])
        /\ PadLeftCovered(random.padPlacements)


(***************************************************************************)
(* Auto-solve.                                                             *)
(***************************************************************************)
\* C31: attempts and the re-rolls of one auto-solve never exceed
\* MAX_ATTEMPTS, auto-solve is never left on over a plan that is not
\* refused, and auto-solve, once on, is eventually off
C31_AutoSolveStops ==
    /\ [](/\ random.attempts <= MAX_ATTEMPTS
          /\ random.rerolls <= MAX_ATTEMPTS
          /\ (random.autoSolve => insufficientOf(random.inventory)))
    /\ (random.autoSolve ~> ~random.autoSolve)

\* auto-solve has given up at the cap
C31_Witness ==
    /\ ~random.autoSolve
    /\ random.attempts = MAX_ATTEMPTS
    /\ random.rerolls = MAX_ATTEMPTS
    /\ insufficientOf(random.inventory)


(***************************************************************************)
(* The bookkeeping of the two searches.                                    *)
(***************************************************************************)
\* the rows marked in u and not in v, r apart
MarkedOnlyIn(u, v, r) == {r2 \in DOMAIN u : r2 # r /\ u[r2] /\ ~v[r2]}

\* the bookkeeping of solveFirstExactCover in the primed state
FirstBookAfter ==
    [coveredCols |-> coveredCols', usedRow |-> usedRow', usedCounts |-> usedCounts',
     bannedRowsStack |-> bannedRowsStack']

\* C32: for every row r that dfs is about to choose, unchooseRow(r) after
\* chooseRow(r) gives back coveredCols, usedRow, usedCounts and
\* bannedRowsStack as they were; the rows it unbans are the rows that
\* chooseRow newly banned and none that was banned before; and the search
\* chooses and unchooses by these two functions
C32_UnchooseRestores ==
    /\ []((pc = "dfs" /\ Top.phase = "loop" /\ Top.i <= Len(Top.cands)) =>
            LET r == Top.cands[Top.i]
                chosen == ChooseRowOn(FirstBook, r)
                undone == UnchooseRowOn(chosen, r)
            IN  /\ undone = FirstBook
                /\ MarkedOnlyIn(chosen.usedRow, undone.usedRow, r)
                     = MarkedOnlyIn(chosen.usedRow, usedRow, r)
                /\ \A r2 \in DOMAIN usedRow : usedRow[r2] => undone.usedRow[r2])
    /\ [][DfsTry => FirstBookAfter = ChooseRowOn(FirstBook, Top.cands[Top.i])]_vars
    /\ [][(DfsReturn /\ Len(stack) > 1) =>
            LET caller == stack[Len(stack) - 1]
            IN  FirstBookAfter = UnchooseRowOn(FirstBook, caller.cands[caller.i])]_vars

\* a row was chosen and then unchosen while an earlier choice stands, and
\* rows banned by the earlier choice lie on the columns of the next row
C32_Witness ==
    /\ pc = "dfs"
    /\ Len(solutionRows) >= 1
    /\ Top.phase = "loop"
    /\ Top.i > 1
    /\ Top.i <= Len(Top.cands)
    /\ \E c \in Range(rowCols(Top.cands[Top.i])) :
          \E r2 \in Range(colToRows(c)) : r2 # Top.cands[Top.i] /\ usedRow[r2]


\* the rows r and q have a column in common
ShareColumn(r, q) == Range(rowCols(r)) \cap Range(rowCols(q)) # {}

\* C33: at every entry of dfs a column is covered iff it is a column of a
\* chosen row, a row is marked used iff it is chosen or has a column in
\* common with a chosen row, usedCounts counts the chosen rows of each type,
\* the stack of banned rows is as long as solutionRows, and so every row
\* not marked used has all its columns uncovered
C33_FirstBookkeeping ==
    (pc = "dfs" /\ Top.phase = "enter") =>
        LET chosen == Range(solutionRows)
        IN  /\ \A c \in DOMAIN coveredCols :
                  coveredCols[c] <=> \E r \in chosen : c \in Range(rowCols(r))
            /\ \A r \in DOMAIN usedRow :
                  usedRow[r] <=> (r \in chosen \/ \E q \in chosen : ShareColumn(r, q))
            /\ \A ti \in DOMAIN usedCounts :
                  usedCounts[ti]
                    = Cardinality({k \in DOMAIN solutionRows : rowTi(solutionRows[k]) = ti})
            /\ Len(bannedRowsStack) = Len(solutionRows)
            /\ \A r \in DOMAIN usedRow :
                  ~usedRow[r] => \A c \in Range(rowCols(r)) : ~coveredCols[c]

\* dfs is entered with two rows chosen after at least one row was given up
C33_Witness ==
    /\ pc = "dfs"
    /\ Top.phase = "enter"
    /\ Len(solutionRows) >= 2
    /\ nodes > Len(solutionRows) + 1
    /\ \E r \in DOMAIN usedRow : ~usedRow[r]


\* C34: at every search node, if some uncovered column (cell) has no usable
\* row (placement) the node is given up with no row selected, and otherwise
\* the column selected has the least number of usable rows of all the
\* uncovered columns
C34_DeadEndOrFewestCandidates ==
    /\ (pc = "dfs" /\ Top.phase = "enter" /\ ~allCovered) =>
          LET open == {c \in DOMAIN coveredCols : ~coveredCols[c]}
              c == chooseColumn
          IN  IF \E u \in open : Len(UsableRows(u)) = 0
              THEN c = 0 \/ Candidates(c) = <<>>
              ELSE /\ c \in open
                   /\ \A u \in open : Len(UsableRows(c)) <= Len(UsableRows(u))
    /\ (pc = "rec" /\ Top.phase = "loop" /\ coveredCount # totalCells) =>
          LET open == {i \in DOMAIN freeCells : freeCells[i] \notin covered}
              pick == chooseCellAndPids
          IN  IF \E u \in open : Len(validPidsForCell(freeCells[u])) = 0
              THEN pick.pids = <<>>
              ELSE /\ pick.cell \in {freeCells[u] : u \in open}
                   /\ \A u \in open : Len(pick.pids) <= Len(validPidsForCell(freeCells[u]))

\* the layout whose placements are the images under f of those of `layout`
TransformLayout(f, layout) ==
    [k \in DOMAIN layout |->
        [ti |-> layout[k].ti,
         cells |-> [j \in DOMAIN layout[k].cells |->
                      ApplyT(f, payload.W, payload.H, layout[k].cells[j])]]]

\* whether h is the composition "g, then f" on the cells of the board
ComposesTo(f, g, h) ==
    \A c \in AllCells(payload.W, payload.H) :
        ApplyT(h, payload.W, payload.H, c) =
            ApplyT(f, payload.W, payload.H, ApplyT(g, payload.W, payload.H, c))

\* C35: the transforms retained for canonicalization (those of
\* boardSymTransforms mapping the free set onto itself) contain the identity
\* and are closed under composition, on square and non-square boards, and so
\* the canonical key of a retained layout is that of each of its images
C35_RetainedTransformsFormGroup ==
    /\ pc = "idle" =>
          /\ "r0" \in RetainedTransforms
          /\ \A f, g \in RetainedTransforms :
                \E h \in RetainedTransforms : ComposesTo(f, g, h)
    /\ (pc = "done" /\ payload.uniqueByBoardSymmetry) =>
          \A i \in DOMAIN solutions : \A f \in RetainedTransforms :
              canonicalKey(TransformLayout(f, solutions[i]), payload.W, payload.H,
                           TRUE, boardSet)
                = canonicalKey(solutions[i], payload.W, payload.H, TRUE, boardSet)

\* C36: without uniqueByBoardSymmetry, a complete layout has the canonical key
\* of a retained layout only if the two are the same set of {ti, cells}
\* placements; a layout differing in the tile type of a placement has a key
\* of its own and is retained too
C36_SameKeyOnlySamePlacements ==
    (pc = "rec" /\ Top.phase = "loop" /\ coveredCount = totalCells
        /\ ~payload.uniqueByBoardSymmetry) =>
        \A i \in DOMAIN solutions :
            canonicalKey(CurrentLayout, payload.W, payload.H, FALSE, boardSet)
                = canonicalKey(solutions[i], payload.W, payload.H, FALSE, boardSet)
              => PlacementSet(CurrentLayout) = PlacementSet(solutions[i])

\* C37: in balanced mode with fewer distinct layouts than the cap, the result
\* is that of the command, whatever the shuffles drew: found is the number
\* of distinct keys over all exact covers, and score is the least balance
\* score over all exact covers
C37_ResultIndependentOfShuffles ==
    (EnumeratedBelowCap /\ Last(msgs).type = "result") =>
        /\ Last(msgs).found = Cardinality(AllCoverKeys)
        /\ \A L \in AllExactCovers : ~RatLess(ScoreOf(L), Last(msgs).score)

\* C38: throughout enumerateTilings, the unwinding after the cap was reached
\* included, covered is the union of the cells of the placements in
\* usedPlacements, coveredCount is its size and usedCounts[ti] is the number
\* of placements of type ti in usedPlacements
C38_EnumBookkeeping ==
    pc = "rec" =>
        /\ covered = UNION {Range(placements[usedPlacements[k]].cells) :
                               k \in DOMAIN usedPlacements}
        /\ coveredCount = Cardinality(covered)
        /\ \A ti \in DOMAIN tiles :
              usedCounts[ti] = Cardinality({k \in DOMAIN usedPlacements :
                                              placements[usedPlacements[k]].ti = ti})

\* the orientations precomputePlacements asks for, by tile type
OrientationsByType ==
    [ti \in DOMAIN tiles |->
        orientations(tiles[ti].base, allowRotArg(tiles[ti]), allowReflectArg(tiles[ti]))]

\* the (tile type, orientation, ox, oy) whose cells lie in the free set
FreeTriples(os) ==
    {t \in UNION {{<<ti, j, ox, oy>> :
                     j \in DOMAIN os[ti],
                     ox \in 0..(payload.W - 1), oy \in 0..(payload.H - 1)} :
                  ti \in DOMAIN tiles} :
        Range(Translate(os[t[1]][t[2]], t[3], t[4])) \subseteq boardSet}

\* the order of emission: tile type, orientation, oy, ox
EmittedBefore(s, t) ==
    \/ s[1] < t[1]
    \/ s[1] = t[1] /\ s[2] < t[2]
    \/ s[1] = t[1] /\ s[2] = t[2] /\ s[4] < t[4]
    \/ s[1] = t[1] /\ s[2] = t[2] /\ s[4] = t[4] /\ s[3] < t[3]

Occurrences(seq, e) == Cardinality({i \in DOMAIN seq : seq[i] = e})

\* the search has just been set up: the placement table is that of the command
TableBuilt == pc \in {"dfs", "rec"} /\ Len(stack) = 1 /\ Top.phase = "enter"

\* C39: precomputePlacements emits each (tile type, orientation, offset)
\* whose cells lie in the free set exactly once, the pids following the
\* order of emission, and byCell is consistent: pid is in byCell[k] exactly
\* when k is a cell of placements[pid], and then once
C39_PlacementTable ==
    TableBuilt =>
        \A os \in {OrientationsByType} : \A T \in {FreeTriples(os)} :
        \* <<t, pid>>: placements[pid] is the placement of triple t
        \A emitted \in {{q \in T \X DOMAIN placements :
                           placements[q[2]] =
                               [ti |-> q[1][1],
                                cells |-> Translate(os[q[1][1]][q[1][2]],
                                                    q[1][3], q[1][4])]}} :
            /\ Len(placements) = Cardinality(T)
            /\ \A t \in T : Cardinality({q \in emitted : q[1] = t}) = 1
            /\ \A a, b \in emitted : EmittedBefore(a[1], b[1]) => a[2] < b[2]
            /\ \A k \in AllCells(payload.W, payload.H) :
                  \A list \in {byCellOf(placements, k)} :
                      /\ Range(list) \subseteq DOMAIN placements
                      /\ \A pid \in DOMAIN placements :
                            Occurrences(list, pid) =
                                IF k \in Range(placements[pid].cells) THEN 1 ELSE 0

\* a table with two orientations of a tile type, on a board with a hole that
\* rules out some offset
C39_Witness ==
    /\ TableBuilt
    /\ payload.holes # {}
    /\ \E i, j \in DOMAIN placements :
          /\ placements[i].ti = placements[j].ti
          /\ Len(placements[i].cells) > 1
          /\ placements[i].cells[2][1] = placements[i].cells[1][1] + 1
          /\ placements[j].cells[2][2] = placements[j].cells[1][2] + 1
    /\ Len(placements) <
          Len(precomputePlacements(payload.W, payload.H,
                                   AllCells(payload.W, payload.H), tiles))

\* the placement being dragged, and whether it sits on the hole or on
\* another placement
Dragged ==
    LET ps == planner.placements
    IN  ps[CHOOSE i \in DOMAIN ps : ps[i].id = planner.drag.id]

DropInvalid ==
    LET ps == planner.placements
    IN  \/ intersectsHole(Dragged)
        \/ \E i \in DOMAIN ps : ps[i].id # Dragged.id /\ rectsOverlap(Dragged, ps[i])

\* the mouse button is released while a placement of the plan is dragged
Release ==
    /\ MouseUp
    /\ planner.drag # NoDrag
    /\ \E i \in DOMAIN planner.placements : planner.placements[i].id = planner.drag.id

\* C40: releasing a drag at a position on another tile or on the hole leaves
\* the number of placements and every placement but the dragged one as they
\* were, the dragged one staying in the plan; releasing at a valid position
\* keeps the plan as dragged
C40_InvalidDropOnlyMovesDragged ==
    [][Release =>
          LET ps == planner.placements
              qs == planner'.placements
          IN  IF DropInvalid
              THEN /\ Len(qs) = Len(ps)
                   /\ \A i \in DOMAIN ps :
                         /\ qs[i].id = ps[i].id
                         /\ ps[i].id # planner.drag.id => qs[i] = ps[i]
              ELSE qs = ps]_vars

=============================================================================
